---- MODULE Spec2Model ----
(***************************************************************************)
(* A model of the turbositter scheduler: the EventStore with its snapshot  *)
(* file, the single-slot schedule buffer shared with the alert handlers,   *)
(* and the operator loop of Scheduler.run.                                 *)
(*                                                                         *)
(* Python values: None is the empty tuple <<>>, a present value x is the   *)
(* one-element tuple <<x>>.  Times are minutes on the wall clock.          *)
(***************************************************************************)
EXTENDS Integers, Sequences, FiniteSets, TLC

VARIABLES
    event_schedules,   \* Scheduler.event_schedules: list of Schedule
    snapshot,          \* the file event.snapshot: [exists, data]
    current_schedules, \* Scheduler.current_schedules: list of target lists
    now,               \* datetime.datetime.now(), in minutes
    life,              \* the scheduler process: "up", "raised", "killed", "startup_failed", "exited"
    last,              \* the EventStore operation that has just returned: its name, the
                       \* event generate_schedules chose, add_event's local `replacement`
    schedule_buffer,   \* the Schedule object shared by the handlers and the scheduler
    notification,      \* the threading.Event shared by the handlers and the scheduler
    keep_going,        \* Scheduler.keep_going
    pc,                \* where the operator (main thread) is in Scheduler.run
    tel,               \* the index of `telescope` in the for loop of Scheduler.run
    new_schedule,      \* handle_notification's local new_schedule, argument by argument
    hpc,               \* where each handler thread is in handle_alert
    hpub,              \* each handler's locals: the schedule it is publishing
    alerts_seen,       \* how many alerts the broker has delivered
    fetched,           \* run()'s local `state` of the telescope polled last, with the response it came from
    requests           \* the requests made to that telescope in its turn, in order

store_vars == <<event_schedules, snapshot, current_schedules, now, life, last>>

conc_vars == <<schedule_buffer, notification, keep_going, pc, tel, new_schedule, hpc, hpub,
               alerts_seen>>

poll_vars == <<fetched, requests>>

vars == <<event_schedules, snapshot, current_schedules, now, life, last,
          schedule_buffer, notification, keep_going, pc, tel, new_schedule, hpc, hpub,
          alerts_seen, fetched, requests>>

-----------------------------------------------------------------------------
(* Bounds of the model *)

MaxTime == 65

TickMinutes == 20

MaxAlerts == 2

(* Program constants *)

ExpireMinutes == 30

NTelescopes == 2

-----------------------------------------------------------------------------
(* Values *)

None == <<>>

Some(x) == <<x>>

Schedule(name, targets, priority, expiration) ==
    [name |-> name, targets |-> targets, priority |-> priority, expiration |-> expiration]

\* run_scheduler.py: the buffer before any handler has written it
NoneSchedule == Schedule(None, [kind |-> "None", ids |-> <<>>], None, None)

\* GraceIDs of the LVC stream and TrigIDs of the Fermi stream
GraceIDs == {"S1"}

TrigIDs == {"G1", "G2"}

\* the tiled fields of an event: a tuple (ids, ra, dec) of arrays, here the ids
FieldsOf(name) ==
    IF name = "S1" THEN <<"s1a", "s1b", "s1c">> ELSE <<"g1a", "g1b">>

TupleTargets(ids) == [kind |-> "tuple", ids |-> ids]

\* lvc_alert.py: a Retraction publishes targets = [] (a plain empty list)
ListTargets == [kind |-> "list", ids |-> <<>>]

\* the host schedule read from sne_host_galaxies.txt
HostFields == <<"h1", "h2">>

host_schedule == Schedule(Some("Hosts"), TupleTargets(HostFields), Some(0), None)

\* what LvcAlertHandler.handle_alert publishes at time t
LvcSchedule(name, retraction, t) ==
    IF retraction
    THEN Schedule(Some(name), ListTargets, Some(0), Some(t))
    ELSE Schedule(Some(name), TupleTargets(FieldsOf(name)), Some(1), Some(t + ExpireMinutes))

\* what FermiAlertHandler.handle_alert publishes at time t
FermiSchedule(name, t) ==
    Schedule(Some(name), TupleTargets(FieldsOf(name)), Some(1), Some(t + ExpireMinutes))

Times == {t \in 0..MaxTime : t % TickMinutes = 0}

PublishedAt(t) ==
    {LvcSchedule(n, r, t) : n \in GraceIDs, r \in BOOLEAN} \cup {FermiSchedule(n, t) : n \in TrigIDs}

PublishedSchedules == UNION {PublishedAt(t) : t \in Times}

-----------------------------------------------------------------------------
(* The EventStore: scheduler.py, add_event / remove_expired_events *)

\* what datetime.datetime.now() returns to the operator: the schedules it holds
\* were stamped by a handler that read the clock before, so the operator reads
\* a later instant than any handler did in the same tick
OperatorNow(t) == t + 1

\* event.expiration and event.expiration < datetime.datetime.now()
Expired(event, t) == event.expiration # None /\ event.expiration[1] < OperatorNow(t)

RemoveAt(list, i) == SubSeq(list, 1, i - 1) \o SubSeq(list, i + 1, Len(list))

\* `for event in self.event_schedules: if expired: self.event_schedules.remove(event)`:
\* the list iterator keeps an index that advances after every item, whether or not
\* the item was removed from the list it walks.
RECURSIVE RemoveLoop(_, _, _)
RemoveLoop(list, i, t) ==
    IF i > Len(list) THEN list
    ELSE IF Expired(list[i], t) THEN RemoveLoop(RemoveAt(list, i), i + 1, t)
    ELSE RemoveLoop(list, i + 1, t)

\* list.sort compares the keys with <: a None key raises TypeError as soon as
\* there are two items to compare.
SortRaises(list) == Len(list) >= 2 /\ \E i \in 1..Len(list) : list[i].priority = None

Priorities(list) == {list[i].priority[1] : i \in 1..Len(list)}

MaxOf(S) == CHOOSE m \in S : \A x \in S : x <= m

MinOf(S) == CHOOSE m \in S : \A x \in S : m <= x

RECURSIVE SortDescending(_, _)
SortDescending(list, ps) ==
    IF ps = {} THEN <<>>
    ELSE LET m == MaxOf(ps)
             HasM(e) == e.priority[1] = m
         IN  SelectSeq(list, HasM) \o SortDescending(list, ps \ {m})

RECURSIVE SortAscending(_, _)
SortAscending(list, ps) ==
    IF ps = {} THEN <<>>
    ELSE LET m == MinOf(ps)
             HasM(e) == e.priority[1] = m
         IN  SelectSeq(list, HasM) \o SortAscending(list, ps \ {m})

\* the same sort without reverse=True
SortedAscendingByPriority(list) ==
    IF Len(list) < 2 THEN list ELSE SortAscending(list, Priorities(list))

\* self.event_schedules.sort(reverse=True, key=lambda x: x.priority): stable
\* a descending sort that is not stable: equal keys come out in reverse
SortTiesReversed(list) ==
    IF Len(list) < 2 THEN list
    ELSE SortDescending([i \in 1..Len(list) |-> list[Len(list) + 1 - i]], Priorities(list))

SortByPriority(list) ==
    IF Len(list) < 2 THEN list ELSE SortDescending(list, Priorities(list))

-----------------------------------------------------------------------------
(* The snapshot file: pickle.dump / pickle.load of the list of Schedule *)

PickleOptional(tag, v) == IF v = None THEN <<"N">> ELSE <<tag, v[1]>>

UnpickleOptional(e) == IF e[1] = "N" THEN None ELSE Some(e[2])

PickleTargets(tg) == IF tg.kind = "None" THEN <<"N">> ELSE <<tg.kind, tg.ids>>

UnpickleTargets(e) == IF e[1] = "N" THEN [kind |-> "None", ids |-> <<>>] ELSE [kind |-> e[1], ids |-> e[2]]

PickleSchedule(s) ==
    <<"OBJ", PickleOptional("str", s.name), PickleTargets(s.targets),
      PickleOptional("int", s.priority), PickleOptional("datetime", s.expiration)>>

UnpickleSchedule(f) ==
    Schedule(UnpickleOptional(f[2]), UnpickleTargets(f[3]), UnpickleOptional(f[4]), UnpickleOptional(f[5]))

\* the byte stream of pickle.dump(list): a header, one frame per item, the STOP opcode
Pickle(list) == <<(<<"PROTO">>)>> \o [i \in 1..Len(list) |-> PickleSchedule(list[i])] \o <<(<<"STOP">>)>>

\* pickle.load: raises (ok = FALSE) on a stream that does not end with STOP
Unpickle(data) ==
    IF Len(data) < 2 \/ data[1] # <<"PROTO">> \/ data[Len(data)] # <<"STOP">>
    THEN [ok |-> FALSE, value |-> <<>>]
    ELSE [ok |-> TRUE, value |-> [i \in 1..(Len(data) - 2) |-> UnpickleSchedule(data[i + 1])]]

\* a rewrite that never reaches the disk: the file stays as it was
SkipPickle(list, file) == file

\* pickle_events: open(snapshot_path, "wb") and pickle.dump
PickleEvents(list, file) == [exists |-> TRUE, data |-> Pickle(list)]

\* the file when the process dies inside pickle_events: open(..., "wb") has
\* truncated it, and any proper prefix of the new stream may have reached the disk
PartialFiles(list) == {[exists |-> TRUE, data |-> SubSeq(Pickle(list), 1, k)] : k \in 0..(Len(Pickle(list)) - 1)}

-----------------------------------------------------------------------------
(* Operations on (memory, file): each returns [mem, file, raised] *)

Outcome(mem, file, raised) == [mem |-> mem, file |-> file, raised |-> raised]

RemoveExpiredEvents(mem, file, t) ==
    LET kept == RemoveLoop(mem, 1, t)
    IN  IF SortRaises(kept) THEN Outcome(kept, file, TRUE)
        ELSE Outcome(SortByPriority(kept), PickleEvents(SortByPriority(kept), file), FALSE)

NameIndex(list, name) ==
    IF \E i \in 1..Len(list) : list[i].name = name
    THEN MinOf({i \in 1..Len(list) : list[i].name = name})
    ELSE 0

\* lines 350-351 alone, without the search by name
AlwaysAppend(list, event) == Append(list, event)

\* add_event, lines 344-351: replace the first entry of that name, else append
ReplaceOrAppend(list, event) ==
    IF NameIndex(list, event.name) > 0
    THEN [list EXCEPT ![NameIndex(list, event.name)] = event]
    ELSE Append(list, event)

AddEvent(mem, file, event, t) ==
    LET r == RemoveExpiredEvents(ReplaceOrAppend(mem, event), file, t)
    IN  IF r.raised THEN r
        ELSE Outcome(SortByPriority(r.mem), PickleEvents(SortByPriority(r.mem), r.file), FALSE)

-----------------------------------------------------------------------------
(* scheduler_utilities.py and generate_schedules *)

AllFields == {"s1a", "s1b", "s1c", "g1a", "g1b", "h1", "h2"}

\* the sets of fields that can be above the minimum altitude at one instant
Skies == {{}, AllFields, {"s1a", "s1c", "h1", "h2"}, {"g1a", "h2"}}

\* filter_for_visibility without lines 91-94: the twilight test alone
FilterForTwilight(tg, twilight, sky) ==
    IF ~twilight THEN [raised |-> FALSE, ids |-> <<>>]
    ELSE IF tg.kind # "tuple" THEN [raised |-> TRUE, ids |-> <<>>]
    ELSE [raised |-> FALSE, ids |-> tg.ids]

\* filter_for_visibility(targets, location, twilight): [raised, ids].
\* len(targets[0]) raises on None (TypeError) and on the empty list (IndexError).
FilterForVisibility(tg, twilight, sky) ==
    IF ~twilight THEN [raised |-> FALSE, ids |-> <<>>]
    ELSE IF tg.kind # "tuple" THEN [raised |-> TRUE, ids |-> <<>>]
    ELSE LET Up(f) == f \in sky
         IN  [raised |-> FALSE, ids |-> SelectSeq(tg.ids, Up)]

\* target i goes to list i mod n, and the first target to every list
SeparateTargetsSharingFirst(ids, n) ==
    [k \in 1..n |-> LET Mine(i) == i = 1 \/ (i - 1) % n = k - 1
                        idx == SelectSeq([i \in 1..Len(ids) |-> i], Mine)
                    IN  [j \in 1..Len(idx) |-> ids[idx[j]]]]

\* separate_targets_evenly: target i goes to list i mod n
SeparateTargetsEvenly(ids, n) ==
    [k \in 1..n |-> LET Mine(i) == (i - 1) % n = k - 1
                        idx == SelectSeq([i \in 1..Len(ids) |-> i], Mine)
                    IN  [j \in 1..Len(idx) |-> ids[idx[j]]]]

CeilDiv(a, b) == (a + b - 1) \div b

\* _get_even_clusters: KMeans gives n centers, none without a point; every point
\* is assigned one of n * ceil(|X|/n) slots, cluster_size slots per center, no
\* slot twice; the label is slot // cluster_size.  Which assignment is the
\* cheapest depends on the coordinates: any labelling with at least one and at
\* most cluster_size points per label can come out.
ClusterLabellings(m, n) ==
    {lab \in [1..m -> 1..n] :
        \A c \in 1..n : /\ Cardinality({i \in 1..m : lab[i] = c}) >= 1
                        /\ Cardinality({i \in 1..m : lab[i] = c}) <= CeilDiv(m, n)}

\* the labels _get_even_clusters can return for the hosts visible in this sky;
\* with fewer points than clusters KMeans.fit raises before there are labels
HostLabellings(twilight, sky) ==
    LET m == Len(FilterForVisibility(TupleTargets(HostFields), twilight, sky).ids)
    IN  IF m < NTelescopes THEN {<<>>} ELSE ClusterLabellings(m, NTelescopes)

\* separate_targets_into_clusters, given the labels
SeparateTargetsIntoClusters(ids, n, lab) ==
    [k \in 1..n |-> LET Mine(i) == lab[i] = k
                        idx == SelectSeq([i \in 1..Len(ids) |-> i], Mine)
                    IN  [j \in 1..Len(idx) |-> ids[idx[j]]]]

Lengths(lists) == {Len(lists[i]) : i \in 1..Len(lists)}

RECURSIVE SortAscendingLength(_, _)
SortAscendingLength(lists, ls) ==
    IF ls = {} THEN <<>>
    ELSE LET m == MinOf(ls)
             HasM(x) == Len(x) = m
         IN  SelectSeq(lists, HasM) \o SortAscendingLength(lists, ls \ {m})

\* generate_schedules without the sort of line 326
LeaveUnsorted(lists) == lists

\* self.current_schedules.sort(key=lambda x: len(x[0]))
SortByLength(lists) == SortAscendingLength(lists, Lengths(lists))

\* the same loop without the break of line 307: the last event scanned decides
RECURSIVE ScanEventsNoBreak(_, _, _, _)
ScanEventsNoBreak(list, i, twilight, sky) ==
    IF i > Len(list) THEN [raised |-> FALSE, src |-> None, ids |-> <<>>]
    ELSE LET f == FilterForVisibility(list[i].targets, twilight, sky)
             rest == ScanEventsNoBreak(list, i + 1, twilight, sky)
         IN  IF f.raised \/ rest.raised THEN [raised |-> TRUE, src |-> None, ids |-> <<>>]
             ELSE IF i = Len(list) THEN [raised |-> FALSE, src |-> Some(list[i]), ids |-> f.ids]
             ELSE rest

\* the for loop of generate_schedules, from item i on: [raised, src, ids]
RECURSIVE ScanEvents(_, _, _, _)
ScanEvents(list, i, twilight, sky) ==
    IF i > Len(list) THEN [raised |-> FALSE, src |-> None, ids |-> <<>>]
    ELSE LET f == FilterForVisibility(list[i].targets, twilight, sky)
         IN  IF f.raised THEN [raised |-> TRUE, src |-> None, ids |-> <<>>]
             ELSE IF Len(f.ids) > 0 THEN [raised |-> FALSE, src |-> Some(list[i]), ids |-> f.ids]
             ELSE ScanEvents(list, i + 1, twilight, sky)

\* generate_schedules: [mem, file, raised, result, src, cur]
GenerateSchedules(mem, file, cur, t, twilight, sky, lab) ==
    LET r    == RemoveExpiredEvents(mem, file, t)
        scan == ScanEvents(r.mem, 1, twilight, sky)
        host == FilterForVisibility(host_schedule.targets, twilight, sky)
        Gen(raised, result, src, c) ==
            [mem |-> r.mem, file |-> r.file, raised |-> raised, result |-> result, src |-> src, cur |-> c]
    IN  IF r.raised \/ scan.raised THEN Gen(TRUE, FALSE, None, cur)
        ELSE IF Len(scan.ids) > 0
             THEN Gen(FALSE, TRUE, scan.src, SortByLength(SeparateTargetsEvenly(scan.ids, NTelescopes)))
        ELSE IF Len(host.ids) = 0 THEN Gen(FALSE, FALSE, None, <<>>)
        \* KMeans(n_clusters) raises ValueError on fewer samples than clusters
        ELSE IF Len(host.ids) < NTelescopes THEN Gen(TRUE, FALSE, None, cur)
        ELSE Gen(FALSE, TRUE, Some(host_schedule),
                 SortByLength(SeparateTargetsIntoClusters(host.ids, NTelescopes, lab)))

-----------------------------------------------------------------------------
(* The EventStore on its own: the operations of scheduler.py called one after *)
(* the other by the operator, the clock, and the process dying and restarting *)

Done(op, src, replacement) == [op |-> op, src |-> src, replacement |-> replacement]

\* the same record for generate_schedules, with what the call saw (the twilight
\* test and the sky of filter_for_visibility) and what it returned
Generated(g, twilight, sky) ==
    [op |-> "generate_schedules", src |-> g.src, replacement |-> FALSE,
     result |-> g.result, twilight |-> twilight, sky |-> sky]

Handlers == {"lvc", "fermi"}

\* run_scheduler.py, lines 17-30: the event, the buffer, the handlers listening,
\* the Scheduler constructed and about to enter the loop of run()
ConcInitAfter(seen) ==
    /\ schedule_buffer = NoneSchedule
    /\ notification = FALSE
    /\ keep_going = TRUE
    /\ pc = "loop"
    /\ tel = 1
    /\ new_schedule = NoneSchedule
    /\ hpc = [h \in Handlers |-> "listen"]
    /\ hpub = [h \in Handlers |-> NoneSchedule]
    /\ alerts_seen = seen
    /\ fetched = None
    /\ requests = <<>>

ConcInit == ConcInitAfter(0)

StoreInit ==
    /\ event_schedules = <<>>
    /\ snapshot = [exists |-> FALSE, data |-> <<>>]
    /\ current_schedules = <<>>
    /\ now = 0
    /\ life = "up"
    /\ last = Done("init", None, FALSE)
    /\ ConcInit

\* what handle_notification can pass to add_event: a schedule published now, or
\* the buffer no handler has written yet
AddInputs(t) == PublishedAt(t) \cup {NoneSchedule}

StoreAddEvent ==
    /\ life = "up"
    /\ \E event \in AddInputs(now) :
        LET r == AddEvent(event_schedules, snapshot, event, now)
        IN  /\ event_schedules' = r.mem
            /\ snapshot' = r.file
            /\ life' = IF r.raised THEN "raised" ELSE "up"
            /\ last' = Done("add_event", Some(event), NameIndex(event_schedules, event.name) > 0)
    /\ UNCHANGED <<current_schedules, now>>
    /\ UNCHANGED <<conc_vars, poll_vars>>

StoreRemoveExpired ==
    /\ life = "up"
    /\ LET r == RemoveExpiredEvents(event_schedules, snapshot, now)
       IN  /\ event_schedules' = r.mem
           /\ snapshot' = r.file
           /\ life' = IF r.raised THEN "raised" ELSE "up"
    /\ last' = Done("remove_expired_events", None, FALSE)
    /\ UNCHANGED <<current_schedules, now>>
    /\ UNCHANGED <<conc_vars, poll_vars>>

StoreGenerateSchedules ==
    /\ life = "up"
    /\ \E twilight \in BOOLEAN, sky \in Skies :
        \E lab \in HostLabellings(twilight, sky) :
            LET g == GenerateSchedules(event_schedules, snapshot, current_schedules, now, twilight, sky, lab)
            IN  /\ event_schedules' = g.mem
                /\ snapshot' = g.file
                /\ current_schedules' = g.cur
                /\ life' = IF g.raised THEN "raised" ELSE "up"
                /\ last' = Generated(g, twilight, sky)
    /\ UNCHANGED now
    /\ UNCHANGED <<conc_vars, poll_vars>>

Tick ==
    /\ now + TickMinutes <= MaxTime
    /\ now' = now + TickMinutes
    /\ last' = Done("tick", None, FALSE)
    /\ UNCHANGED <<event_schedules, snapshot, current_schedules, life>>
    /\ UNCHANGED <<conc_vars, poll_vars>>

\* the process is killed between two operations
Kill ==
    /\ life = "up"
    /\ life' = "killed"
    /\ last' = Done("kill", None, FALSE)
    /\ UNCHANGED <<event_schedules, snapshot, current_schedules, now>>
    /\ UNCHANGED <<conc_vars, poll_vars>>

\* the process is killed inside pickle_events, called by add_event or by
\* remove_expired_events
KillDuringPickle ==
    /\ life = "up"
    /\ \E event \in AddInputs(now) \cup {None} :
        LET r == IF event = None THEN RemoveExpiredEvents(event_schedules, snapshot, now)
                 ELSE AddEvent(event_schedules, snapshot, event, now)
        IN  /\ ~r.raised
            /\ event_schedules' = r.mem
            /\ snapshot' \in PartialFiles(r.mem)
    /\ life' = "killed"
    /\ last' = Done("kill_in_pickle_events", None, FALSE)
    /\ UNCHANGED <<current_schedules, now>>
    /\ UNCHANGED <<conc_vars, poll_vars>>

\* Scheduler.__init__, lines 81-87, in a new process
Restart ==
    /\ life \in {"killed", "raised"}
    /\ IF ~snapshot.exists
       THEN event_schedules' = <<>> /\ life' = "up"
       ELSE IF Unpickle(snapshot.data).ok
       THEN event_schedules' = Unpickle(snapshot.data).value /\ life' = "up"
       ELSE event_schedules' = <<>> /\ life' = "startup_failed"
    /\ current_schedules' = <<>>
    /\ last' = Done("restart", None, FALSE)
    /\ UNCHANGED <<snapshot, now>>
    /\ UNCHANGED <<conc_vars, poll_vars>>

StoreNext ==
    \/ StoreAddEvent
    \/ StoreRemoveExpired
    \/ StoreGenerateSchedules
    \/ Tick
    \/ Kill
    \/ KillDuringPickle
    \/ Restart

SpecStore == StoreInit /\ [][StoreNext]_vars

-----------------------------------------------------------------------------
(* The handler threads: LvcAlertHandler.handle_alert, lines 176-182, and      *)
(* FermiAlertHandler.handle_alert, lines 130-137                              *)

HandlerSchedules(h, t) ==
    IF h = "lvc" THEN {LvcSchedule(n, r, t) : n \in GraceIDs, r \in BOOLEAN}
    ELSE {FermiSchedule(n, t) : n \in TrigIDs}

HandlerStep(h, from, to) ==
    /\ life = "up"
    /\ hpc[h] = from
    /\ hpc' = [hpc EXCEPT ![h] = to]
    /\ UNCHANGED <<store_vars, poll_vars, keep_going, tel, new_schedule>>

\* consumer.consume returned a notice that passes the handler's filters, the
\* handler has computed what it publishes and starts to notify the scheduler:
\* self.schedule_buffer.name = ...
WriteName(h) ==
    /\ HandlerStep(h, "listen", "write_targets")
    /\ alerts_seen < MaxAlerts
    /\ alerts_seen' = alerts_seen + 1
    /\ \E s \in HandlerSchedules(h, now) :
        /\ hpub' = [hpub EXCEPT ![h] = s]
        /\ schedule_buffer' = [schedule_buffer EXCEPT !.name = s.name]
    /\ UNCHANGED <<notification, pc>>

\* a handler that notifies the scheduler too early: detected_event.set() right
\* after the targets, before priority and expiration are written
WriteTargetsAndSet(h) ==
    /\ HandlerStep(h, "write_targets", "write_priority")
    /\ schedule_buffer' = [schedule_buffer EXCEPT !.targets = hpub[h].targets]
    /\ notification' = TRUE
    /\ UNCHANGED <<pc, hpub, alerts_seen>>

\* self.schedule_buffer.targets = targets
WriteTargets(h) ==
    /\ HandlerStep(h, "write_targets", "write_priority")
    /\ schedule_buffer' = [schedule_buffer EXCEPT !.targets = hpub[h].targets]
    /\ UNCHANGED <<notification, pc, hpub, alerts_seen>>

\* self.schedule_buffer.priority = priority
WritePriority(h) ==
    /\ HandlerStep(h, "write_priority", "write_expiration")
    /\ schedule_buffer' = [schedule_buffer EXCEPT !.priority = hpub[h].priority]
    /\ UNCHANGED <<notification, pc, hpub, alerts_seen>>

\* self.schedule_buffer.expiration = expiration; the Fermi handler reads the
\* clock in this very statement.  The handler's locals are not used after it.
WriteExpiration(h) ==
    /\ HandlerStep(h, "write_expiration", "set_event")
    /\ schedule_buffer' = [schedule_buffer EXCEPT !.expiration =
                              IF h = "fermi" THEN Some(now + ExpireMinutes) ELSE hpub[h].expiration]
    /\ hpub' = [hpub EXCEPT ![h] = NoneSchedule]
    /\ UNCHANGED <<notification, pc, alerts_seen>>

\* self.detected_event.set()
SetEvent(h) ==
    /\ HandlerStep(h, "set_event", "interrupt")
    /\ notification' = TRUE
    /\ UNCHANGED <<schedule_buffer, pc, hpub, alerts_seen>>

\* the operator thread when ThreadInterrupted is raised in it: inside the try
\* the exception is caught (lines 229-231) and run() goes on at line 233;
\* anywhere else it leaves run()
Interrupted(at) == IF at \in {"poll", "continue", "wait", "wait_off"} THEN "check" ELSE "raised"

\* interrupt_main_thread(): ThreadInterrupted is raised on the operator thread,
\* where it stands
InterruptMainThread(h) ==
    /\ hpc[h] = "interrupt"
    /\ hpc' = [hpc EXCEPT ![h] = "listen"]
    /\ IF life = "up" /\ Interrupted(pc) = "raised" THEN life' = "raised" /\ pc' = pc
       ELSE IF life = "up" THEN life' = life /\ pc' = Interrupted(pc)
       ELSE life' = life /\ pc' = pc
    /\ UNCHANGED <<event_schedules, snapshot, current_schedules, now, last, poll_vars, schedule_buffer,
                   notification, keep_going, tel, new_schedule, hpub, alerts_seen>>

HandlerNext(h) ==
    \/ WriteName(h)
    \/ WriteTargets(h)
    \/ WritePriority(h)
    \/ WriteExpiration(h)
    \/ SetEvent(h)
    \/ InterruptMainThread(h)

-----------------------------------------------------------------------------
(* The operator: Scheduler.run, handle_notification, sigint_handler / stop    *)

Operator(from) == life = "up" /\ pc = from

\* lines 156-164: the loop test, then inside the try the civil twilight test
LoopTop ==
    /\ Operator("loop")
    /\ \/ ~keep_going /\ pc' = "stop_all_controllers" /\ tel' = tel
       \/ keep_going /\ pc' = "wait_off" /\ tel' = tel
       \/ keep_going /\ pc' = "poll" /\ tel' = 1
    /\ UNCHANGED <<store_vars, poll_vars, schedule_buffer, notification, keep_going, new_schedule, hpc, hpub, alerts_seen>>

\* line 163-164: self.notification.wait(300); continue
WaitOffHours ==
    /\ Operator("wait_off")
    /\ pc' = "loop"
    /\ UNCHANGED <<store_vars, poll_vars, schedule_buffer, notification, keep_going, tel, new_schedule, hpc, hpub, alerts_seen>>

\* lines 170-208: this telescope's turn ends in a `continue` before line 210
\* (no state, enclosure not opened, queue not empty, flats, focus)
PollTelescopeContinue ==
    /\ Operator("poll")
    /\ tel <= NTelescopes
    /\ tel' = tel + 1
    /\ UNCHANGED <<store_vars, poll_vars, schedule_buffer, notification, keep_going, pc, new_schedule, hpc, hpub, alerts_seen>>

\* is_still_valid(schedule)
IsStillValid(ids, twilight, sky) ==
    Len(ids) = Len(FilterForVisibility(TupleTargets(ids), twilight, sky).ids)

\* the skies of the nights the operator loop is run through
LoopSkies == {AllFields, {"s1a", "h1", "h2"}}

\* lines 210-225: this telescope is idle and is given the last of current_schedules
PollTelescopeDispatch ==
    /\ Operator("poll")
    /\ tel <= NTelescopes
    /\ tel' = tel + 1
    /\ \E sky \in LoopSkies, sent \in BOOLEAN : \E lab \in HostLabellings(TRUE, sky) :
        LET stale == Len(current_schedules) = 0
                     \/ ~IsStillValid(current_schedules[Len(current_schedules)], TRUE, sky)
            g == GenerateSchedules(event_schedules, snapshot, current_schedules, now, TRUE, sky, lab)
            cur == IF stale THEN g.cur ELSE current_schedules
        IN  IF stale /\ g.raised
            THEN /\ life' = "raised"
                 /\ event_schedules' = g.mem
                 /\ snapshot' = g.file
                 /\ current_schedules' = current_schedules
            ELSE /\ life' = life
                 /\ event_schedules' = IF stale THEN g.mem ELSE event_schedules
                 /\ snapshot' = IF stale THEN g.file ELSE snapshot
                 /\ current_schedules' =
                        IF (stale /\ ~g.result) \/ ~sent THEN cur
                        ELSE SubSeq(cur, 1, Len(cur) - 1)
    /\ UNCHANGED <<now, last, poll_vars, schedule_buffer, notification, keep_going, pc, new_schedule, hpc, hpub, alerts_seen>>

\* lines 227-228: the for loop is over; self.notification.wait(delay) returns,
\* at once when the event is set, else when the delay has elapsed
Wait ==
    /\ \/ Operator("poll") /\ tel > NTelescopes /\ pc' = "wait"
       \/ Operator("wait") /\ pc' = "check"
    /\ UNCHANGED <<store_vars, poll_vars, schedule_buffer, notification, keep_going, tel, new_schedule, hpc, hpub, alerts_seen>>

\* line 233: if self.notification.is_set()
CheckNotification ==
    /\ Operator("check")
    /\ pc' = IF notification THEN "reset_all_controllers" ELSE "loop"
    /\ UNCHANGED <<store_vars, poll_vars, schedule_buffer, notification, keep_going, tel, new_schedule, hpc, hpub, alerts_seen>>

\* handle_notification, line 247
ResetAllControllers ==
    /\ Operator("reset_all_controllers")
    /\ pc' = "copy_name"
    /\ UNCHANGED <<store_vars, poll_vars, schedule_buffer, notification, keep_going, tel, new_schedule, hpc, hpub, alerts_seen>>

CopyStep(from, to) ==
    /\ Operator(from)
    /\ pc' = to
    /\ UNCHANGED <<store_vars, poll_vars, schedule_buffer, notification, keep_going, tel, hpc, hpub, alerts_seen>>

\* handle_notification, lines 251-254: the four arguments are read one by one
CopyName ==
    /\ CopyStep("copy_name", "copy_targets")
    /\ new_schedule' = [new_schedule EXCEPT !.name = schedule_buffer.name]

CopyTargets ==
    /\ CopyStep("copy_targets", "copy_priority")
    /\ new_schedule' = [new_schedule EXCEPT !.targets = schedule_buffer.targets]

CopyPriority ==
    /\ CopyStep("copy_priority", "copy_expiration")
    /\ new_schedule' = [new_schedule EXCEPT !.priority = schedule_buffer.priority]

CopyExpiration ==
    /\ CopyStep("copy_expiration", "add_event")
    /\ new_schedule' = [new_schedule EXCEPT !.expiration = schedule_buffer.expiration]

\* handle_notification without line 258: the target sets of before the alert
\* stay in current_schedules
HandleAddEventKeepingDispatch ==
    /\ Operator("add_event")
    /\ LET r == AddEvent(event_schedules, snapshot, new_schedule, now)
       IN  /\ event_schedules' = r.mem
           /\ snapshot' = r.file
           /\ life' = IF r.raised THEN "raised" ELSE "up"
           /\ current_schedules' = current_schedules
           /\ pc' = IF r.raised THEN pc ELSE "clear"
    /\ UNCHANGED <<now, last, poll_vars, schedule_buffer, notification, keep_going, tel, new_schedule, hpc, hpub, alerts_seen>>

\* handle_notification, lines 255-258: self.add_event(new_schedule);
\* self.current_schedules = []
HandleAddEvent ==
    /\ Operator("add_event")
    /\ LET r == AddEvent(event_schedules, snapshot, new_schedule, now)
       IN  /\ event_schedules' = r.mem
           /\ snapshot' = r.file
           /\ life' = IF r.raised THEN "raised" ELSE "up"
           /\ current_schedules' = IF r.raised THEN current_schedules ELSE <<>>
           /\ pc' = IF r.raised THEN pc ELSE "clear"
    /\ UNCHANGED <<now, last, poll_vars, schedule_buffer, notification, keep_going, tel, new_schedule, hpc, hpub, alerts_seen>>

\* handle_notification, line 260: self.notification.clear()
ClearNotification ==
    /\ Operator("clear")
    /\ notification' = FALSE
    /\ pc' = "loop"
    /\ UNCHANGED <<store_vars, poll_vars, schedule_buffer, keep_going, tel, new_schedule, hpc, hpub, alerts_seen>>

\* SIGINT or SIGTERM: sigint_handler runs stop() on the main thread and puts
\* the default handlers back
Signal ==
    /\ life = "up"
    /\ keep_going
    /\ pc \notin {"stop_all_controllers", "thread_pool_shutdown", "returned"}
    /\ keep_going' = FALSE
    /\ notification' = TRUE
    /\ UNCHANGED <<store_vars, poll_vars, schedule_buffer, pc, tel, new_schedule, hpc, hpub,
                   alerts_seen>>

\* lines 237-239
StopAllControllers ==
    /\ Operator("stop_all_controllers")
    /\ pc' = "thread_pool_shutdown"
    /\ UNCHANGED <<store_vars, poll_vars, schedule_buffer, notification, keep_going, tel, new_schedule, hpc, hpub, alerts_seen>>

ThreadPoolShutdown ==
    /\ Operator("thread_pool_shutdown")
    /\ pc' = "returned"
    /\ life' = "exited"
    /\ UNCHANGED <<event_schedules, snapshot, current_schedules, now, last, poll_vars, schedule_buffer,
                   notification, keep_going, tel, new_schedule, hpc, hpub,
                   alerts_seen>>

OperatorNext ==
    \/ LoopTop
    \/ WaitOffHours
    \/ PollTelescopeContinue
    \/ PollTelescopeDispatch
    \/ Wait
    \/ CheckNotification
    \/ ResetAllControllers
    \/ CopyName
    \/ CopyTargets
    \/ CopyPriority
    \/ CopyExpiration
    \/ HandleAddEvent
    \/ ClearNotification
    \/ StopAllControllers
    \/ ThreadPoolShutdown

\* the snapshots an earlier run of the scheduler can have left behind
EarlierStores == {<<>>, <<LvcSchedule("S1", FALSE, 0)>>}

InitAfter(seen) ==
    /\ \E earlier \in EarlierStores :
        /\ snapshot = (IF earlier = <<>> THEN [exists |-> FALSE, data |-> <<>>]
                       ELSE [exists |-> TRUE, data |-> Pickle(earlier)])
        /\ event_schedules = earlier
    /\ current_schedules = <<>>
    /\ now = 0
    /\ life = "up"
    /\ last = Done("init", None, FALSE)
    /\ ConcInitAfter(seen)

Init == InitAfter(0)

\* One stretch of operation of the scheduler, shorter than a tick of the clock:
\* the operator, the two handler threads and the termination signal.  Expiry
\* over the ticks of the clock is the subject of SpecStore.
Next ==
    \/ OperatorNext
    \/ \E h \in Handlers : HandlerNext(h)
    \/ Signal

Spec == Init /\ [][Next]_vars

-----------------------------------------------------------------------------
(* separate_targets_into_clusters on its own: called on m targets for n        *)
(* telescopes, with any labels _get_even_clusters can return                  *)

MaxHosts == 7

MaxClusters == 3

\* the names of m targets
TargetNames(m) == [i \in 1..m |-> i]

Clustered(m, n, raised) ==
    [op |-> "separate_targets_into_clusters", src |-> None, replacement |-> FALSE,
     m |-> m, n |-> n, raised |-> raised]

SeparateTargetsIntoClustersCall ==
    /\ \E m \in 1..MaxHosts, n \in 1..MaxClusters :
          IF m < n
          THEN \* KMeans.fit: ValueError, n_samples should be >= n_clusters
               /\ current_schedules' = <<>>
               /\ last' = Clustered(m, n, TRUE)
          ELSE \E lab \in ClusterLabellings(m, n) :
               /\ current_schedules' = SeparateTargetsIntoClusters(TargetNames(m), n, lab)
               /\ last' = Clustered(m, n, FALSE)
    /\ UNCHANGED <<event_schedules, snapshot, now, life>>
    /\ UNCHANGED <<conc_vars, poll_vars>>

SpecClusters == StoreInit /\ [][SeparateTargetsIntoClustersCall]_vars

-----------------------------------------------------------------------------
(* The telescope client: robust_http_request and the calls built on it.      *)
(* A call returns [raised, ok, sent]: whether an exception left it, what it   *)
(* returned, and the requests it made.                                        *)

FOCUS_INTERVAL == 21600

FLAT_INTERVAL == 7200

\* time.time() at the polls of the model, in seconds
PollTime == 30000

\* how a request can end: a response with a 2xx status, a RequestException of
\* the transport, or a 4xx/5xx status (raise_for_status raises HTTPError)
Outcomes == {"ok", "transport_error", "http_error"}

FailedOutcomes == Outcomes \ {"ok"}

Request(cmd, target, outcome) == [cmd |-> cmd, target |-> target, outcome |-> outcome]

\* lines 130-138 without the except clause: the RequestException gets through
UncaughtHttpRequest(outcome) == [raised |-> outcome # "ok", response |-> outcome = "ok"]

\* robust_http_request: the response, or None after a RequestException
RobustHttpRequest(outcome) == [raised |-> FALSE, response |-> outcome = "ok"]

\* a call that makes one request and returns whether there was a response:
\* reset_controller, focus_telescope, take_flats, the two requests of
\* send_schedule; start_controller and request_enclosure_open, whose callers
\* do not use what they return
Call(cmd, target, outcome) ==
    LET r == RobustHttpRequest(outcome)
    IN  [raised |-> r.raised, ok |-> ~r.raised /\ r.response, sent |-> <<Request(cmd, target, outcome)>>]

NoCall == [raised |-> FALSE, ok |-> TRUE, sent |-> <<>>]

\* a, and b after it unless a raised
Then(a, b) ==
    IF a.raised THEN a
    ELSE [raised |-> b.raised, ok |-> b.ok, sent |-> a.sent \o b.sent]

\* the bodies the state endpoint can answer with
StateBody(enclosure, running, queue_size, last_focused, last_flat) ==
    [json |-> "state", enclosure |-> enclosure, running |-> running, queue_size |-> queue_size,
     last_focused |-> last_focused, last_flat |-> last_flat]

StateBodies ==
    {StateBody(e, r, q, lf, fl) :
        e \in {"closed", "opening", "closing", "opened"}, r \in BOOLEAN, q \in {0, 1},
        lf \in {0, PollTime}, fl \in {None, Some(PollTime)}}

\* a body that is not JSON, and a JSON object without one of the required keys
BadBodies == {[json |-> "invalid"], [json |-> "incomplete"]}

\* a response to GET /telescope_controller/state: how the request ended and,
\* with a response, its body
StateResponses ==
    {[outcome |-> o, body |-> [json |-> "none"]] : o \in FailedOutcomes}
        \cup {[outcome |-> "ok", body |-> b] : b \in BadBodies \cup StateBodies}

\* get_telescope_state without the except clause of line 390
GetTelescopeStateNoExcept(resp) ==
    LET r == RobustHttpRequest(resp.outcome)
    IN  IF r.raised THEN [raised |-> TRUE, state |-> None]
        ELSE IF ~r.response THEN [raised |-> FALSE, state |-> None]
        ELSE IF resp.body.json = "invalid" THEN [raised |-> TRUE, state |-> None]
        ELSE IF resp.body.json # "state" THEN [raised |-> FALSE, state |-> None]
        ELSE [raised |-> FALSE, state |-> Some(resp.body)]

\* get_telescope_state: the state, or False (here None)
GetTelescopeState(resp) ==
    LET r == RobustHttpRequest(resp.outcome)
    IN  IF r.raised THEN [raised |-> TRUE, state |-> None]
        ELSE IF ~r.response THEN [raised |-> FALSE, state |-> None]
        ELSE IF resp.body.json # "state" THEN [raised |-> FALSE, state |-> None]
        ELSE [raised |-> FALSE, state |-> Some(resp.body)]

\* should_telescope_focus without the test of line 398: a timestamp later than
\* the clock is compared like any other
FocusByIntervalOnly(state, current_time) ==
    (current_time - state.last_focused) > FOCUS_INTERVAL

\* should_telescope_focus
ShouldTelescopeFocus(state, current_time) ==
    IF state.last_focused > current_time THEN TRUE
    ELSE (current_time - state.last_focused) > FOCUS_INTERVAL

\* should_take_flats; state.get('last_flat', 0)
ShouldTakeFlats(state, current_time) ==
    LET last_flat == IF state.last_flat = None THEN 0 ELSE state.last_flat[1]
    IN  IF last_flat > current_time THEN FALSE
        ELSE (current_time - last_flat) > FLAT_INTERVAL

\* send_schedule without the returns of lines 462 and 475: a failed request
\* is followed by the rest of the requests
RECURSIVE SendScheduleThrough(_, _, _, _)
SendScheduleThrough(ids, i, fail_at, failure) ==
    IF i > Len(ids) THEN NoCall
    ELSE LET point    == Call("point", Some(ids[i]), IF fail_at = 2 * i - 1 THEN failure ELSE "ok")
             exposure == Call("exposure", Some(ids[i]), IF fail_at = 2 * i THEN failure ELSE "ok")
         IN  Then(Then(point, exposure), SendScheduleThrough(ids, i + 1, fail_at, failure))

\* send_schedule from target i on; the request number fail_at of the call, if
\* any, ends as `failure`, and the call returns False there
RECURSIVE SendSchedule(_, _, _, _)
SendSchedule(ids, i, fail_at, failure) ==
    IF i > Len(ids) THEN NoCall
    ELSE LET point    == Call("point", Some(ids[i]), IF fail_at = 2 * i - 1 THEN failure ELSE "ok")
             exposure == Call("exposure", Some(ids[i]), IF fail_at = 2 * i THEN failure ELSE "ok")
         IN  IF point.raised \/ ~point.ok THEN point
             ELSE IF exposure.raised \/ ~exposure.ok THEN Then(point, exposure)
             ELSE Then(Then(point, exposure), SendSchedule(ids, i + 1, fail_at, failure))

\* lines 185-187: reset_controller and, if it returned True, start_controller
ResetAndStart(reset_outcome, start_outcome) ==
    LET reset == Call("reset", None, reset_outcome)
    IN  IF reset.raised \/ ~reset.ok THEN reset
        ELSE Then(reset, Call("start", None, start_outcome))

-----------------------------------------------------------------------------
(* The for loop of run(), lines 169-225, request by request: the turn of one  *)
(* telescope is one step, named after the statement that ends it.            *)

\* the turn of telescope `tel`: its state was fetched as resp, and `call` is
\* what the turn then did
Turn(resp, call) ==
    /\ Operator("poll")
    /\ tel <= NTelescopes
    /\ fetched' = Some(resp)
    /\ requests' = call.sent
    /\ life' = IF call.raised THEN "raised" ELSE life
    /\ pc' = IF call.raised THEN pc ELSE "continue"
    /\ UNCHANGED <<now, last, schedule_buffer, notification, keep_going, tel, new_schedule, hpc, hpub,
                   alerts_seen>>

\* the for statement takes the next telescope; what `state` was is of no use any more
NextTelescope ==
    /\ Operator("continue")
    /\ pc' = "poll"
    /\ tel' = tel + 1
    /\ fetched' = None
    /\ requests' = <<>>
    /\ UNCHANGED <<store_vars, schedule_buffer, notification, keep_going, new_schedule, hpc, hpub,
                   alerts_seen>>

\* the responses from which get_telescope_state returns a state
GoodStateResponses == {resp \in StateResponses : GetTelescopeState(resp).state # None}

\* run() without the tests of lines 177-182: any enclosure goes on to line 185
AnyEnclosureStateResponses == GoodStateResponses

\* the responses that take the turn past the tests of lines 177-182
OpenedStateResponses == {resp \in GoodStateResponses : resp.body.enclosure = "opened"}

\* run() without the test of line 192: a busy telescope goes on to line 196
BusyOrIdleStateResponses == OpenedStateResponses

\* those that take the turn past the test of line 192
IdleStateResponses == {resp \in OpenedStateResponses : resp.body.queue_size = 0}

\* lines 170-172: no state, continue
TurnNoState ==
    /\ \E resp \in StateResponses \ GoodStateResponses :
          Turn(resp, [raised |-> GetTelescopeState(resp).raised, ok |-> FALSE, sent |-> <<>>])
    /\ UNCHANGED <<event_schedules, snapshot, current_schedules>>

\* lines 177-179: request_enclosure_open, continue
TurnEnclosureClosed ==
    /\ \E resp \in GoodStateResponses :
          /\ resp.body.enclosure = "closed"
          /\ \E outcome \in Outcomes : Turn(resp, Call("enclosure_open", None, outcome))
    /\ UNCHANGED <<event_schedules, snapshot, current_schedules>>

\* lines 181-182: the enclosure is neither closed nor opened, continue
TurnEnclosureMoving ==
    /\ \E resp \in GoodStateResponses :
          /\ resp.body.enclosure \notin {"closed", "opened"}
          /\ Turn(resp, NoCall)
    /\ UNCHANGED <<event_schedules, snapshot, current_schedules>>

\* lines 185-187, for every way the requests can end
StartIfNotRunning(state) ==
    IF state.running THEN {NoCall}
    ELSE {ResetAndStart(reset_outcome, start_outcome) : reset_outcome \in Outcomes, start_outcome \in Outcomes}

\* lines 192-193: the queue is not empty, continue
TurnQueueBusy ==
    /\ \E resp \in OpenedStateResponses :
          /\ resp.body.queue_size > 0
          /\ \E start \in StartIfNotRunning(resp.body) : Turn(resp, start)
    /\ UNCHANGED <<event_schedules, snapshot, current_schedules>>

\* lines 196-202 without the `continue` of line 202: after the flats the turn
\* goes on to the focus test of line 205
TurnNotAstronomicalAndOn ==
    /\ \E resp \in IdleStateResponses :
          \E start \in StartIfNotRunning(resp.body), flats \in Outcomes, focus \in Outcomes :
             LET flats_call == IF ShouldTakeFlats(resp.body, PollTime)
                               THEN Then(start, Call("flats", None, flats)) ELSE start
             IN  IF ShouldTelescopeFocus(resp.body, PollTime)
                 THEN Turn(resp, Then(flats_call, Call("focus", None, focus)))
                 ELSE Turn(resp, flats_call)
    /\ UNCHANGED <<event_schedules, snapshot, current_schedules>>

\* lines 196-202: not astronomical night; flats if they are due, continue
TurnNotAstronomical ==
    /\ \E resp \in IdleStateResponses :
          \E start \in StartIfNotRunning(resp.body) :
             IF ShouldTakeFlats(resp.body, PollTime)
             THEN \E outcome \in Outcomes : Turn(resp, Then(start, Call("flats", None, outcome)))
             ELSE Turn(resp, start)
    /\ UNCHANGED <<event_schedules, snapshot, current_schedules>>

\* lines 205-208: astronomical night and the focus is stale; focus, continue
TurnFocus ==
    /\ \E resp \in IdleStateResponses :
          /\ ShouldTelescopeFocus(resp.body, PollTime)
          /\ \E start \in StartIfNotRunning(resp.body), outcome \in Outcomes :
                Turn(resp, Then(start, Call("focus", None, outcome)))
    /\ UNCHANGED <<event_schedules, snapshot, current_schedules>>

\* the ways the requests of send_schedule(schedule) can end: all of them with a
\* response, or the first one without at any place
SendFailures(schedule) ==
    {<<0, "ok">>} \cup {<<k, f>> : k \in 1..(2 * Len(schedule)), f \in FailedOutcomes}

\* lines 218-225 without the append of line 224: the popped set is dropped
\* whatever send_schedule returned
AfterSendNoAppend(cur, send) == SubSeq(cur, 1, Len(cur) - 1)

\* lines 218-225: current_schedules after the pop, send_schedule and the
\* append of the popped set when send_schedule returned False
AfterSend(cur, send) ==
    IF send.raised THEN SubSeq(cur, 1, Len(cur) - 1)
    ELSE IF send.ok THEN SubSeq(cur, 1, Len(cur) - 1)
    ELSE Append(SubSeq(cur, 1, Len(cur) - 1), cur[Len(cur)])

\* lines 210-225: generate_schedules if needed, pop, send_schedule, and the
\* append after a failed send
TurnDispatch ==
    \E resp \in {r \in IdleStateResponses : ~ShouldTelescopeFocus(r.body, PollTime)}, sky \in LoopSkies :
      \E lab \in HostLabellings(TRUE, sky), start \in StartIfNotRunning(resp.body) :
        LET stale == Len(current_schedules) = 0
                     \/ ~IsStillValid(current_schedules[Len(current_schedules)], TRUE, sky)
            g == GenerateSchedules(event_schedules, snapshot, current_schedules, now, TRUE, sky, lab)
            cur == IF stale THEN g.cur ELSE current_schedules
        IN  /\ event_schedules' = IF stale /\ ~start.raised THEN g.mem ELSE event_schedules
            /\ snapshot' = IF stale /\ ~start.raised THEN g.file ELSE snapshot
            /\ IF start.raised
               THEN Turn(resp, start) /\ current_schedules' = current_schedules
               ELSE IF stale /\ g.raised
               THEN Turn(resp, [raised |-> TRUE, ok |-> FALSE, sent |-> start.sent])
                    /\ current_schedules' = current_schedules
               ELSE IF stale /\ ~g.result
               THEN Turn(resp, start) /\ current_schedules' = cur
               ELSE \E f \in SendFailures(cur[Len(cur)]) :
                      LET send == SendSchedule(cur[Len(cur)], 1, f[1], f[2])
                      IN  /\ Turn(resp, Then(start, send))
                          /\ current_schedules' = AfterSend(cur, send)

\* the operator alone, with no alert and no signal: the cycles of run()
\* request by request
CycleNext ==
    \/ LoopTop
    \/ WaitOffHours
    \/ TurnNoState
    \/ TurnEnclosureClosed
    \/ TurnEnclosureMoving
    \/ TurnQueueBusy
    \/ TurnNotAstronomical
    \/ TurnFocus
    \/ TurnDispatch
    \/ NextTelescope
    \/ Wait
    \/ CheckNotification

SpecCycle == Init /\ [][CycleNext]_vars

\* the operator thread is never kept from its next statement: the for
\* statement takes the next telescope, a timed wait ends, and the test of line
\* 233 is made
FairSpecCycle ==
    SpecCycle /\ WF_vars(NextTelescope) /\ WF_vars(Wait) /\ WF_vars(CheckNotification)

-----------------------------------------------------------------------------
(* Alerts at the operator: the handlers, the waits of run() and               *)
(* handle_notification with the requests of reset_all_controllers            *)

\* line 228 (and 163): Event.wait returns because the flag is set, whatever is
\* left of the delay
WaitWoken ==
    /\ \/ Operator("wait") /\ pc' = "check"
       \/ Operator("wait_off") /\ pc' = "loop"
    /\ notification
    /\ UNCHANGED <<store_vars, poll_vars, schedule_buffer, notification, keep_going, tel, new_schedule, hpc, hpub, alerts_seen>>

\* handle_notification, line 247: reset_controller for each telescope of the
\* observatory, whatever each request comes to
ResetAllControllersRequests ==
    /\ Operator("reset_all_controllers")
    /\ pc' = "copy_name"
    /\ fetched' = None
    /\ \E outcome \in [1..NTelescopes -> Outcomes] :
          requests' = [i \in 1..NTelescopes |-> Call("reset", None, outcome[i]).sent[1]]
    /\ UNCHANGED <<store_vars, schedule_buffer, notification, keep_going, tel, new_schedule, hpc, hpub, alerts_seen>>

AlertNext ==
    \/ LoopTop
    \/ WaitOffHours
    \/ PollTelescopeContinue
    \/ PollTelescopeDispatch
    \/ Wait
    \/ WaitWoken
    \/ CheckNotification
    \/ ResetAllControllersRequests
    \/ CopyName
    \/ CopyTargets
    \/ CopyPriority
    \/ CopyExpiration
    \/ HandleAddEvent
    \/ ClearNotification
    \/ \E h \in Handlers : HandlerNext(h)

\* the last alert of the stretch: the handlers have one more notice to consume
LastAlertInit == InitAfter(MaxAlerts - 1)

SpecAlert == LastAlertInit /\ [][AlertNext]_vars

\* a thread that can take its next step takes it: the handlers theirs, the
\* operator the return of a wait whose flag is set and the test of line 233;
\* nothing is assumed about a delay running out
FairSpecAlert ==
    /\ SpecAlert
    /\ WF_vars(WaitWoken)
    /\ WF_vars(CheckNotification)
    /\ \A h \in Handlers : WF_vars(HandlerNext(h))

-----------------------------------------------------------------------------
(* The notices a handler consumes and the filters of handle_alert             *)

\* a <Param> element of the notice found by root.find: its value attribute and
\* the number of its child elements (a <Description> in the notices of GCN)
Param(value, children) == <<[value |-> value, children |-> children]>>

\* `if element` on an xml.etree Element: an element without children is false,
\* and so is the None of a Param that is not in the notice
Truthy(element) == element # None /\ element[1].children > 0

\* `if element and float(element.attrib.get('value')) > cutoff`
ParamExceeds(element, cutoff) == Truthy(element) /\ element[1].value > cutoff

\* an LVC notice: Terrestrial and BBH in thousandths, FAR in units of 1e-9 Hz,
\* fields the number of tiles _generate_fields_from_skymap returns
LvcNotice(role, type, terrestrial, far, bbh, fields) ==
    [name |-> "S1", role |-> role, type |-> type, terrestrial |-> terrestrial,
     far |-> far, bbh |-> bbh, fields |-> fields, lacks |-> "none"]

QuietLvcNotice(terrestrial, far) == LvcNotice("observation", "Preliminary", terrestrial, far, None, 3)

LvcNotices ==
    {LvcNotice(role, "Preliminary", Param(0, 1), Param(1, 1), None, 3) : role \in {"observation", "test"}}
    \cup {LvcNotice("observation", "Retraction", t, Param(1, 1), None, 3) : t \in {Param(0, 1), Param(950, 1)}}
    \cup {QuietLvcNotice(t, Param(1, 1)) : t \in {None, Param(900, 1), Param(950, 1), Param(950, 0)}}
    \cup {QuietLvcNotice(Param(0, 1), f) : f \in {None, Param(10, 1), Param(100, 1), Param(100, 0)}}
    \cup {LvcNotice("observation", "Preliminary", Param(0, 1), Param(1, 1), None, n) : n \in {11, 101}}
    \cup {LvcNotice("observation", "Preliminary", Param(0, 1), Param(1, 1), Param(950, 1), n) : n \in {10, 11}}
    \cup {[LvcNotice("observation", type, Param(0, 1), Param(1, 1), None, 3) EXCEPT !.lacks = l] :
             type \in {"Preliminary", "Retraction"}, l \in {"skymap_fits", "GraceID"}}
    \cup {[LvcNotice("observation", "Preliminary", Param(0, 1), Param(1, 1), None, 3) EXCEPT !.lacks = "AlertType"]}

\* a Fermi notice: whether C1, C2 and Error2Radius are in it, and the number of
\* fields the ball query returns
FermiNotices ==
    {[name |-> n, located |-> TRUE, fields |-> 2, lacks |-> "none"] : n \in TrigIDs}
    \cup {[name |-> "G1", located |-> TRUE, fields |-> k, lacks |-> "none"] : k \in {100, 101}}
    \cup {[name |-> "G1", located |-> FALSE, fields |-> 2, lacks |-> "none"]}
    \cup {[name |-> "G1", located |-> TRUE, fields |-> 2, lacks |-> "TrigID"]}

Notices(h) == IF h = "lvc" THEN LvcNotices ELSE FermiNotices

\* lvc_alert.py, lines 114-165: TRUE when handle_alert reaches "Notify Scheduler"
LvcPublishes(n) ==
    IF n.role # "observation" THEN FALSE
    ELSE IF n.type = "Retraction" THEN TRUE
    ELSE IF ParamExceeds(n.terrestrial, 900) THEN FALSE
    ELSE IF ParamExceeds(n.far, 10) THEN FALSE
    ELSE n.fields <= (IF ParamExceeds(n.bbh, 900) THEN 10 ELSE 100)

\* fermi_alert.py without lines 108-110: every located notice is published
FermiLocated(n) == n.located

\* fermi_alert.py, lines 92-110: TRUE when handle_alert reaches "Notify Scheduler"
FermiPublishes(n) == n.located /\ ~(n.fields > 100)

\* root.find(...) returns None for a Param the notice lacks, and .attrib on it
\* raises AttributeError: lines 125 (AlertType), 144 (skymap_fits), 177 (GraceID)
LvcRaises(n) ==
    /\ n.role = "observation"
    /\ \/ n.lacks = "AlertType"
       \/ /\ n.lacks = "skymap_fits"
          /\ n.type # "Retraction"
          /\ ~ParamExceeds(n.terrestrial, 900)
          /\ ~ParamExceeds(n.far, 10)
       \/ n.lacks = "GraceID" /\ LvcPublishes(n)

\* a lookup of TrigID that gives a value for a notice without one
FermiNeverRaises(n) == FALSE

\* fermi_alert.py, line 131: the same on the TrigID of a notice that came to
\* "Notify Scheduler"
FermiRaises(n) == FermiPublishes(n) /\ n.lacks = "TrigID"

Raises(h, n) == IF h = "lvc" THEN LvcRaises(n) ELSE FermiRaises(n)

Publishes(h, n) == IF h = "lvc" THEN LvcPublishes(n) ELSE FermiPublishes(n)

\* the tiles are the few named fields of the event, whatever their number
PublishedSchedule(h, n, t) ==
    IF h = "lvc" THEN LvcSchedule(n.name, n.type = "Retraction", t) ELSE FermiSchedule(n.name, t)

Handled(h, n) ==
    [op |-> "handle_alert", h |-> h, notice |-> n, published |-> Publishes(h, n) /\ ~Raises(h, n)]

\* handle_alert from consumer.consume to the first write of the buffer, to the
\* return of a notice that is skipped, or to the exception that leaves
\* handle_alert and, nothing catching it in _alert_listener, the listener
HandleAlert(h) ==
    /\ life = "up"
    /\ hpc[h] = "listen"
    /\ \E n \in Notices(h) :
        /\ last' = Handled(h, n)
        /\ IF Raises(h, n)
           THEN /\ hpc' = [hpc EXCEPT ![h] = "raised"]
                /\ UNCHANGED <<alerts_seen, hpub, schedule_buffer>>
           ELSE IF Publishes(h, n)
           THEN /\ alerts_seen < MaxAlerts
                /\ alerts_seen' = alerts_seen + 1
                /\ hpc' = [hpc EXCEPT ![h] = "write_targets"]
                /\ hpub' = [hpub EXCEPT ![h] = PublishedSchedule(h, n, now)]
                /\ schedule_buffer' = [schedule_buffer EXCEPT !.name = Some(n.name)]
           ELSE UNCHANGED <<alerts_seen, hpc, hpub, schedule_buffer>>
    /\ UNCHANGED <<event_schedules, snapshot, current_schedules, now, life, poll_vars,
                   notification, keep_going, pc, tel, new_schedule>>

NoticeHandlerNext(h) ==
    \/ HandleAlert(h)
    \/ WriteTargets(h)
    \/ WritePriority(h)
    \/ WriteExpiration(h)
    \/ SetEvent(h)
    \/ InterruptMainThread(h)

NoticeNext ==
    \/ LoopTop
    \/ WaitOffHours
    \/ PollTelescopeContinue
    \/ PollTelescopeDispatch
    \/ Wait
    \/ WaitWoken
    \/ CheckNotification
    \/ ResetAllControllersRequests
    \/ CopyName
    \/ CopyTargets
    \/ CopyPriority
    \/ CopyExpiration
    \/ HandleAddEvent
    \/ ClearNotification
    \/ \E h \in Handlers : NoticeHandlerNext(h)

\* the operator and the handlers, each notice drawn with its parameters
\* the store is empty when the notices arrive
NoticeInit == LastAlertInit /\ event_schedules = <<>>

SpecNotice == NoticeInit /\ [][NoticeNext]_vars

-----------------------------------------------------------------------------
(* Starting and stopping the listener threads: run_scheduler.py, lines 19-42, *)
(* and _alert_listener, lvc_alert.py lines 87-96, fermi_alert.py lines 46-60  *)

\* handlers = [LvcAlertHandler(...), FermiAlertHandler(...)]
HandlerAt(i) == IF i = 1 THEN "lvc" ELSE "fermi"

\* handler.listen() has returned for both handlers: each listener thread is
\* started and has not yet reached `with self.thread_lock`
ShutdownInit ==
    /\ event_schedules = <<>>
    /\ snapshot = [exists |-> FALSE, data |-> <<>>]
    /\ current_schedules = <<>>
    /\ now = 0
    /\ life = "up"
    /\ last = Done("init", None, FALSE)
    /\ schedule_buffer = NoneSchedule
    /\ notification = FALSE
    /\ keep_going = TRUE
    /\ pc = "loop"
    /\ tel = 1
    /\ new_schedule = NoneSchedule
    /\ hpc = [h \in Handlers |-> "start"]
    /\ hpub = [h \in Handlers |-> NoneSchedule]
    /\ alerts_seen = MaxAlerts - 1
    /\ fetched = None
    /\ requests = <<>>

ListenerStep(h, from, to) ==
    /\ hpc[h] = from
    /\ hpc' = [hpc EXCEPT ![h] = to]
    /\ UNCHANGED <<store_vars, poll_vars, schedule_buffer, notification, keep_going, pc, tel,
                   new_schedule, hpub, alerts_seen>>

\* `with self.thread_lock:` entered by the listener thread; the lock is free
\* unless the main thread holds it inside stop_listening
AcquireThreadLock(h) ==
    /\ ListenerStep(h, "start", "construct")
    /\ ~(pc = "stopping" /\ HandlerAt(tel) = h)

\* Consumer(...) and consumer.subscribe(...) are done, the lock is released and
\* the thread enters its consume loop
ReleaseThreadLock(h) ==
    /\ ListenerStep(h, "construct", "listen")
    /\ hpub[h] = NoneSchedule

\* the exception that left scheduler.run() reaches the finally clause, line 35
Finally ==
    /\ life = "raised"
    /\ pc \notin {"locked", "stop_listening", "stopping", "stopped"}
    /\ pc' = "locked"
    /\ tel' = 1
    /\ UNCHANGED <<store_vars, poll_vars, schedule_buffer, notification, keep_going,
                   new_schedule, hpc, hpub, alerts_seen>>

\* lines 38-39: `while handler.thread_lock.locked(): continue` finds the lock
\* free and the loop is left; as long as it is held the main thread spins
ThreadLockFree ==
    /\ pc = "locked"
    /\ hpc[HandlerAt(tel)] # "construct"
    /\ pc' = "stop_listening"
    /\ UNCHANGED <<store_vars, poll_vars, schedule_buffer, notification, keep_going, tel,
                   new_schedule, hpc, hpub, alerts_seen>>

\* line 40, handler.stop_listening(): it acquires the handler's lock, which
\* blocks while the listener holds it
StopListening ==
    /\ pc = "stop_listening"
    /\ hpc[HandlerAt(tel)] # "construct"
    /\ pc' = "stopping"
    /\ UNCHANGED <<store_vars, poll_vars, schedule_buffer, notification, keep_going, tel,
                   new_schedule, hpc, hpub, alerts_seen>>

\* stop_listening flips the cancel token and waits for the listener, which
\* returns between two polls; then the next handler of the list
ListenerReturned ==
    /\ pc = "stopping"
    /\ hpc[HandlerAt(tel)] \in {"start", "listen"}
    /\ hpc' = [hpc EXCEPT ![HandlerAt(tel)] = "returned"]
    /\ IF tel < Cardinality(Handlers) THEN pc' = "locked" /\ tel' = tel + 1
       ELSE pc' = "stopped" /\ tel' = tel
    /\ UNCHANGED <<store_vars, poll_vars, schedule_buffer, notification, keep_going,
                   new_schedule, hpub, alerts_seen>>

ShutdownNext ==
    \/ AlertNext
    \/ \E h \in Handlers : AcquireThreadLock(h) \/ ReleaseThreadLock(h)
    \/ Finally
    \/ ThreadLockFree
    \/ StopListening
    \/ ListenerReturned

SpecShutdown == ShutdownInit /\ [][ShutdownNext]_vars

-----------------------------------------------------------------------------
(* The worker pool: thread_pool.submit(self.send_schedule, ...).result(),     *)
(* line 221.  While the operator is at "result", requests holds the schedule  *)
(* handed to the worker and fetched the result of the future once it is done. *)

\* lines 210-221: generate_schedules if needed, pop, and the submit
SubmitSendSchedule ==
    /\ Operator("poll")
    /\ tel <= NTelescopes
    /\ \E sky \in LoopSkies : \E lab \in HostLabellings(TRUE, sky) :
        LET stale == Len(current_schedules) = 0
                     \/ ~IsStillValid(current_schedules[Len(current_schedules)], TRUE, sky)
            g == GenerateSchedules(event_schedules, snapshot, current_schedules, now, TRUE, sky, lab)
            cur == IF stale THEN g.cur ELSE current_schedules
        IN  /\ ~(stale /\ g.raised)
            /\ event_schedules' = IF stale THEN g.mem ELSE event_schedules
            /\ snapshot' = IF stale THEN g.file ELSE snapshot
            /\ IF stale /\ ~g.result
               THEN /\ current_schedules' = cur
                    /\ pc' = pc /\ tel' = tel + 1
                    /\ UNCHANGED requests
               ELSE /\ current_schedules' = SubSeq(cur, 1, Len(cur) - 1)
                    /\ pc' = "result" /\ tel' = tel
                    /\ requests' = <<cur[Len(cur)]>>
    /\ UNCHANGED <<now, life, last, fetched, schedule_buffer, notification, keep_going,
                   new_schedule, hpc, hpub, alerts_seen>>

\* the worker: send_schedule returns, after the last request or at the first
\* one that failed, and the future is done
SendScheduleReturns ==
    /\ life = "up"
    /\ pc = "result"
    /\ fetched = None
    /\ \E f \in SendFailures(requests[1]) :
          LET send == SendSchedule(requests[1], 1, f[1], f[2])
          IN  fetched' = Some([raised |-> send.raised, ok |-> send.ok])
    /\ UNCHANGED <<store_vars, requests, schedule_buffer, notification, keep_going, pc, tel,
                   new_schedule, hpc, hpub, alerts_seen>>

\* lines 221-225: .result() returns once the future is done; the schedule is
\* appended again when send_schedule returned False
Result ==
    /\ Operator("result")
    /\ fetched # None
    /\ life' = IF fetched[1].raised THEN "raised" ELSE life
    /\ current_schedules' = IF fetched[1].raised \/ fetched[1].ok THEN current_schedules
                            ELSE Append(current_schedules, requests[1])
    /\ pc' = "poll"
    /\ tel' = tel + 1
    /\ fetched' = None
    /\ requests' = <<>>
    /\ UNCHANGED <<event_schedules, snapshot, now, last, schedule_buffer, notification,
                   keep_going, new_schedule, hpc, hpub, alerts_seen>>

PoolNext ==
    \/ LoopTop
    \/ WaitOffHours
    \/ PollTelescopeContinue
    \/ SubmitSendSchedule
    \/ SendScheduleReturns
    \/ Result
    \/ Wait
    \/ CheckNotification

SpecPool == Init /\ [][PoolNext]_vars

\* the operator thread takes every step it can take; nothing is assumed about
\* the time a controller takes to answer the worker (the requests of
\* robust_http_request have no timeout)
FairSpecPool ==
    /\ SpecPool
    /\ WF_vars(LoopTop)
    /\ WF_vars(PollTelescopeContinue)
    /\ WF_vars(SubmitSendSchedule)
    /\ WF_vars(Result)
    /\ WF_vars(Wait)
    /\ WF_vars(CheckNotification)

-----------------------------------------------------------------------------
(* The exposures a telescope has accepted since generate_schedules last ran:  *)
(* the turns of run() that reach line 210, with `last` keeping the pairs      *)
(* (telescope, target) of the exposure requests that were answered            *)

Exposures(accepted) == [op |-> "exposures", src |-> None, replacement |-> FALSE, accepted |-> accepted]

Accepted == IF last.op = "exposures" THEN last.accepted ELSE {}

\* the targets of the exposure requests of a call that got a response
ExposedTargets(sent) ==
    {sent[i].target[1] : i \in {j \in 1..Len(sent) : sent[j].cmd = "exposure" /\ sent[j].outcome = "ok"}}

\* an idle telescope with the controller running and a fresh focus
ReadyResponse == [outcome |-> "ok", body |-> StateBody("opened", TRUE, 0, PollTime, Some(PollTime))]

\* lines 210-225 for a telescope that is ready
TurnDispatchReady ==
    /\ Operator("poll")
    /\ tel <= NTelescopes
    /\ \E sky \in LoopSkies : \E lab \in HostLabellings(TRUE, sky) :
        LET stale == Len(current_schedules) = 0
                     \/ ~IsStillValid(current_schedules[Len(current_schedules)], TRUE, sky)
            g == GenerateSchedules(event_schedules, snapshot, current_schedules, now, TRUE, sky, lab)
            cur == IF stale THEN g.cur ELSE current_schedules
            before == IF stale THEN {} ELSE Accepted
        IN  /\ ~(stale /\ g.raised)
            /\ event_schedules' = IF stale THEN g.mem ELSE event_schedules
            /\ snapshot' = IF stale THEN g.file ELSE snapshot
            /\ IF stale /\ ~g.result
               THEN /\ current_schedules' = cur
                    /\ requests' = <<>>
                    /\ last' = Exposures(before)
               ELSE \E f \in SendFailures(cur[Len(cur)]) :
                      LET send == SendSchedule(cur[Len(cur)], 1, f[1], f[2])
                      IN  /\ current_schedules' = AfterSend(cur, send)
                          /\ requests' = send.sent
                          /\ last' = Exposures(before \cup {<<tel, t>> : t \in ExposedTargets(send.sent)})
    /\ fetched' = Some(ReadyResponse)
    /\ pc' = "continue"
    /\ UNCHANGED <<now, life, schedule_buffer, notification, keep_going, tel, new_schedule,
                   hpc, hpub, alerts_seen>>

ExposuresNext ==
    \/ LoopTop
    \/ WaitOffHours
    \/ TurnQueueBusy
    \/ TurnDispatchReady
    \/ NextTelescope
    \/ Wait
    \/ CheckNotification

SpecExposures == Init /\ [][ExposuresNext]_vars

-----------------------------------------------------------------------------
(* should_telescope_focus and should_take_flats on their own: called with a   *)
(* state whose timestamps lie before, at and after the clock and on either    *)
(* side of the two intervals                                                  *)

\* time.time() at the call
CallTimes == {PollTime, PollTime + 1}

\* last_focused and last_flat as the telescope reports them, in seconds
Timestamps ==
    {0} \cup UNION {{t - FOCUS_INTERVAL - 1, t - FOCUS_INTERVAL, t - FLAT_INTERVAL - 1,
                     t - FLAT_INTERVAL, t - 1, t, t + 1} : t \in CallTimes}

\* the key last_flat is optional (line 406)
FlatTimestamps == {None} \cup {Some(x) : x \in Timestamps}

Should(op, current_time, result) ==
    [op |-> op, src |-> None, replacement |-> FALSE, current_time |-> current_time,
     result |-> result]

\* lines 394-401, for a state with the key last_focused (line 161 requires it)
ShouldTelescopeFocusCall ==
    /\ \E lf \in Timestamps, fl \in FlatTimestamps, t \in CallTimes :
          LET state == StateBody("opened", TRUE, 0, lf, fl)
          IN  /\ fetched' = Some([outcome |-> "ok", body |-> state])
              /\ last' = Should("should_telescope_focus", t, ShouldTelescopeFocus(state, t))
    /\ UNCHANGED <<event_schedules, snapshot, current_schedules, now, life, requests>>
    /\ UNCHANGED conc_vars

\* lines 403-410, for a state with or without the key last_flat
ShouldTakeFlatsCall ==
    /\ \E lf \in Timestamps, fl \in FlatTimestamps, t \in CallTimes :
          LET state == StateBody("opened", TRUE, 0, lf, fl)
          IN  /\ fetched' = Some([outcome |-> "ok", body |-> state])
              /\ last' = Should("should_take_flats", t, ShouldTakeFlats(state, t))
    /\ UNCHANGED <<event_schedules, snapshot, current_schedules, now, life, requests>>
    /\ UNCHANGED conc_vars

IntervalsNext ==
    \/ ShouldTelescopeFocusCall
    \/ ShouldTakeFlatsCall

IntervalsInit == Init /\ event_schedules = <<>>

SpecIntervals == IntervalsInit /\ [][IntervalsNext]_vars

-----------------------------------------------------------------------------
(* turbositter.py: the watchdog of the enclosure.  run_turbositter is one      *)
(* loop: the test of the error timer, the sleep, the two requests.  In this   *)
(* section `now` is time.time() in seconds, counted from the last poll that   *)
(* began with no timer running (the code uses the clock only in the           *)
(* difference of line 67), `fetched` holds the locals of run_turbositter,     *)
(* `requests` the polls made since that origin, `pc` the line the loop is at. *)

POLLING_INTERVAL == 60

ERROR_TIME_LIMIT == 180

\* the longest the two requests of a poll take together, in seconds
MaxLatency == 1

\* what get_json returns for enclosure/get_state: None after a connection
\* error, a status other than 200 or a body that is not JSON; else the body,
\* an empty object, an object with the key "state", or one without it
EnclosureAnswers == {"none", "empty", "closed", "closing", "open", "no_state_key"}

\* what get_json returns for weather/conditions: None, or the body with or
\* without the key good_conditions (good) and the keys cloudy, wind and rain
\* (report)
WeatherAnswers ==
    {None} \cup {Some([good |-> g, report |-> r]) :
                    g \in {"true", "false", "no_key"}, r \in BOOLEAN}

Locals(error_time, error_reason, weather) ==
    [error_time |-> error_time, error_reason |-> error_reason, weather |-> weather]

\* lines 43-44
SetErrorTime(error_time, time) == IF error_time # None THEN error_time ELSE Some(time)

\* line 67
AlertDue(error_time, time) ==
    error_time # None /\ (time - error_time[1]) > ERROR_TIME_LIMIT

\* lines 80-106 with the `error_time = None` of line 89 left out
PollKeepsTimerWhenClosed(locals, time, state, weather, twilight) ==
    IF state \in {"none", "empty"}
    THEN [raised |-> FALSE, error |-> TRUE,
          locals |-> Locals(SetErrorTime(locals.error_time, time), "Cannot connect to enclosure",
                            locals.weather)]
    ELSE IF state = "no_state_key"
    THEN [raised |-> TRUE, error |-> FALSE, locals |-> locals]
    ELSE IF state \in {"closed", "closing"}
    THEN [raised |-> FALSE, error |-> FALSE, locals |-> locals]
    ELSE IF weather = None
    THEN [raised |-> FALSE, error |-> TRUE,
          locals |-> Locals(SetErrorTime(locals.error_time, time), "Cannot retrieve weather data", None)]
    ELSE IF weather[1].good = "no_key"
    THEN [raised |-> TRUE, error |-> FALSE,
          locals |-> Locals(locals.error_time, locals.error_reason, weather)]
    ELSE IF ~(weather[1].good = "true" /\ twilight)
    THEN [raised |-> FALSE, error |-> TRUE,
          locals |-> Locals(SetErrorTime(locals.error_time, time),
                            "Bad observing conditions and enclosure still open", weather)]
    ELSE [raised |-> FALSE, error |-> FALSE,
          locals |-> Locals(None, locals.error_reason, weather)]

\* lines 80-106, one poll: the locals after it, whether it observed an error
\* condition, and whether a KeyError left the loop (state["state"] at line 88,
\* weather["good_conditions"] at line 100)
PollOnce(locals, time, state, weather, twilight) ==
    IF state \in {"none", "empty"}
    THEN [raised |-> FALSE, error |-> TRUE,
          locals |-> Locals(SetErrorTime(locals.error_time, time), "Cannot connect to enclosure",
                            locals.weather)]
    ELSE IF state = "no_state_key"
    THEN [raised |-> TRUE, error |-> FALSE, locals |-> locals]
    ELSE IF state \in {"closed", "closing"}
    THEN [raised |-> FALSE, error |-> FALSE,
          locals |-> Locals(None, locals.error_reason, locals.weather)]
    ELSE IF weather = None
    THEN [raised |-> FALSE, error |-> TRUE,
          locals |-> Locals(SetErrorTime(locals.error_time, time), "Cannot retrieve weather data", None)]
    ELSE IF weather[1].good = "no_key"
    THEN [raised |-> TRUE, error |-> FALSE,
          locals |-> Locals(locals.error_time, locals.error_reason, weather)]
    ELSE IF ~(weather[1].good = "true" /\ twilight)
    THEN [raised |-> FALSE, error |-> TRUE,
          locals |-> Locals(SetErrorTime(locals.error_time, time),
                            "Bad observing conditions and enclosure still open", weather)]
    ELSE [raised |-> FALSE, error |-> FALSE,
          locals |-> Locals(None, locals.error_reason, weather)]

Sitter(op, error_time, raised) ==
    [op |-> op, src |-> None, replacement |-> FALSE, error_time |-> error_time, raised |-> raised]

SitterInit ==
    /\ event_schedules = <<>>
    /\ snapshot = [exists |-> FALSE, data |-> <<>>]
    /\ current_schedules = <<>>
    /\ now = 0
    /\ life = "up"
    /\ last = Sitter("start", None, FALSE)
    /\ schedule_buffer = NoneSchedule
    /\ notification = FALSE
    /\ keep_going = TRUE
    /\ pc = "check"
    /\ tel = 1
    /\ new_schedule = NoneSchedule
    /\ hpc = [h \in Handlers |-> "listen"]
    /\ hpub = [h \in Handlers |-> NoneSchedule]
    /\ alerts_seen = 0
    /\ fetched = Locals(None, None, None)
    /\ requests = <<>>

\* lines 67-76: the alert is due.  The message reads weather['cloudy'],
\* weather['wind'] and weather['rain'] of the weather fetched last (line 70)
AlertSlack ==
    /\ life = "up"
    /\ pc = "check"
    /\ AlertDue(fetched.error_time, now)
    /\ IF fetched.weather # None /\ ~fetched.weather[1].report
       THEN /\ life' = "raised"
            /\ last' = Sitter("alert_slack", fetched.error_time, TRUE)
            /\ UNCHANGED <<fetched, pc>>
       ELSE /\ last' = Sitter("alert_slack", fetched.error_time, FALSE)
            /\ fetched' = [fetched EXCEPT !.error_time = None]
            /\ pc' = "sleep"
            /\ UNCHANGED life
    /\ UNCHANGED <<event_schedules, snapshot, current_schedules, now, requests, schedule_buffer,
                   notification, keep_going, tel, new_schedule, hpc, hpub, alerts_seen>>

\* line 67: no timer, or not yet past the limit
NoAlert ==
    /\ life = "up"
    /\ pc = "check"
    /\ ~AlertDue(fetched.error_time, now)
    /\ pc' = "sleep"
    /\ last' = Sitter("no_alert", fetched.error_time, FALSE)
    /\ UNCHANGED <<event_schedules, snapshot, current_schedules, now, life, fetched, requests,
                   schedule_buffer, notification, keep_going, tel, new_schedule, hpc, hpub,
                   alerts_seen>>

\* lines 78-106: the sleep and one poll
Poll ==
    /\ life = "up"
    /\ pc = "sleep"
    /\ \E d \in 0..MaxLatency, state \in EnclosureAnswers, weather \in WeatherAnswers,
          twilight \in BOOLEAN :
          LET running == fetched.error_time # None
              time == (IF running THEN now ELSE 0) + POLLING_INTERVAL + d
              poll == PollOnce(fetched, time, state, weather, twilight)
          IN  /\ now' = time
              /\ fetched' = poll.locals
              /\ life' = IF poll.raised THEN "raised" ELSE life
              /\ pc' = IF poll.raised THEN pc ELSE "check"
              /\ requests' = (IF running THEN requests ELSE <<>>)
                                \o <<[at |-> time, error |-> poll.error, raised |-> poll.raised]>>
              /\ last' = Sitter("poll", poll.locals.error_time, poll.raised)
    /\ UNCHANGED <<event_schedules, snapshot, current_schedules, schedule_buffer, notification,
                   keep_going, tel, new_schedule, hpc, hpub, alerts_seen>>

SitterNext ==
    \/ AlertSlack
    \/ NoAlert
    \/ Poll

SpecSitter == SitterInit /\ [][SitterNext]_vars

\* the loop is one thread that runs whenever it can
FairSpecSitter == SpecSitter /\ WF_vars(AlertSlack) /\ WF_vars(NoAlert) /\ WF_vars(Poll)

-----------------------------------------------------------------------------
(* monitor.py: the status files of the camera monitor.  In this section       *)
(* `fetched` is the set of JSON files of data_dir, a file being named by the  *)
(* second of its modification time; `now` is the clock in seconds.            *)

\* the files _trim_old_files keeps (lines 262 and 269)
KeptFiles == 20

\* the most files data_dir holds when the monitor starts
MaxInitialFiles == 23

\* the last second at which the model saves a status file
MaxSaveTime == 2

\* line 266 and the slice of line 269: the files after the n most recent
Beyond(files, n) == {f \in files : Cardinality({g \in files : g > f}) >= n}

\* _trim_old_files with the sort of line 266 ascending: the slice holds the
\* most recent files
TrimNewest(files, failed) ==
    IF Cardinality(files) <= KeptFiles THEN files
    ELSE files \ ({f \in files : Cardinality({g \in files : g < f}) >= KeptFiles} \ failed)

\* _trim_old_files: the files left when unlink raised for the files of
\* `failed` (lines 271-274: the exception is logged and the loop goes on)
TrimOldFiles(files, failed) ==
    IF Cardinality(files) <= KeptFiles THEN files
    ELSE files \ (Beyond(files, KeptFiles) \ failed)

Trimmed(op, before, failed, raised) ==
    [op |-> op, src |-> None, replacement |-> FALSE, before |-> before, failed |-> failed,
     raised |-> raised]

MonitorInit ==
    /\ event_schedules = <<>>
    /\ snapshot = [exists |-> FALSE, data |-> <<>>]
    /\ current_schedules = <<>>
    /\ now = 0
    /\ life = "up"
    /\ last = Trimmed("start", {}, {}, FALSE)
    /\ schedule_buffer = NoneSchedule
    /\ notification = FALSE
    /\ keep_going = TRUE
    /\ pc = "loop"
    /\ tel = 1
    /\ new_schedule = NoneSchedule
    /\ hpc = [h \in Handlers |-> "listen"]
    /\ hpub = [h \in Handlers |-> NoneSchedule]
    /\ alerts_seen = 0
    /\ \E n \in 0..MaxInitialFiles : fetched = {0 - i : i \in 1..n}
    /\ requests = <<>>

\* lines 253-275, called on its own as the test does
TrimOldFilesCall ==
    /\ \E failed \in SUBSET Beyond(fetched, KeptFiles) :
          /\ fetched' = TrimOldFiles(fetched, failed)
          /\ last' = Trimmed("_trim_old_files", fetched, failed, FALSE)
    /\ UNCHANGED <<event_schedules, snapshot, current_schedules, now, life, requests>>
    /\ UNCHANGED conc_vars

\* lines 218-251: the file of this second is written (a second save in the
\* same second writes the same file) and the directory trimmed; an exception
\* before the write (get_status_dict, open) is logged and nothing is trimmed
SaveStatusToJson ==
    /\ \E t \in {now, now + 1}, raised \in BOOLEAN :
          /\ t <= MaxSaveTime
          /\ now' = t
          /\ IF raised
             THEN /\ UNCHANGED fetched
                  /\ last' = Trimmed("save_status_to_json", fetched, {}, TRUE)
             ELSE \E failed \in SUBSET Beyond(fetched \cup {t}, KeptFiles) :
                  /\ fetched' = TrimOldFiles(fetched \cup {t}, failed)
                  /\ last' = Trimmed("save_status_to_json", fetched \cup {t}, failed, FALSE)
    /\ UNCHANGED <<event_schedules, snapshot, current_schedules, life, requests>>
    /\ UNCHANGED conc_vars

MonitorNext ==
    \/ TrimOldFilesCall
    \/ SaveStatusToJson

SpecMonitor == MonitorInit /\ [][MonitorNext]_vars

-----------------------------------------------------------------------------
(* The properties *)

StoreQuiet == life = "up" /\ last.op \in {"add_event", "remove_expired_events", "generate_schedules"}

\* C1: when remove_expired_events has returned (called directly, from add_event
\* or at the start of generate_schedules) the EventStore holds no entry whose
\* expiration is non-null and in the past, and generate_schedules did not take
\* its targets from an expired event.
C1_NoExpiredAfterRemove ==
    StoreQuiet =>
        /\ \A i \in 1..Len(event_schedules) : ~Expired(event_schedules[i], now)
        /\ (last.op = "generate_schedules" /\ last.src # None) => ~Expired(last.src[1], now)

\* the operator is between two cycles, no handler is in the middle of a
\* publication and the notification is clear
AlertsQuiet == life = "up" /\ keep_going /\ ~notification /\ \A h \in Handlers : hpc[h] = "listen"

\* C2: the latest alert is never lost: whenever the notification is clear and
\* no handler is publishing, the schedule in the buffer is the one that was
\* last passed to add_event.
C2_LatestAlertMerged == AlertsQuiet => schedule_buffer = new_schedule

\* C3: the schedule handle_notification passes to add_event is one published
\* schedule (or the buffer as constructed): its four fields come from the
\* same publication.
C3_CopyIsOnePublication ==
    (life = "up" /\ keep_going /\ pc = "add_event") =>
        new_schedule \in PublishedSchedules \cup {NoneSchedule}

\* C4: the loop of run() ends only after a termination signal has set
\* keep_going to false: while keep_going holds, run() has neither left its
\* loop nor been left by an exception.
C4_LoopEndsOnlyOnSignal ==
    keep_going => life = "up" /\ pc \notin {"stop_all_controllers", "thread_pool_shutdown", "returned"}

\* C5: when run() ends after a termination signal, it ends by returning, after
\* stop_all_controllers and the shutdown of the worker pool; stated for the
\* case the claim names, a buffer no handler has written.
C5_SignalStopsControllers ==
    (~keep_going /\ alerts_seen = 0 /\ life # "up") => (life = "exited" /\ pc = "returned")

SnapshotMatchesStore ==
    snapshot.exists /\ Unpickle(snapshot.data) = [ok |-> TRUE, value |-> event_schedules]

\* C6: after every add_event and every remove_expired_events the snapshot file
\* exists and deserializes to exactly the in-memory EventStore; and whenever
\* the scheduler is between two operations, or was stopped there, the file, if
\* there is one, deserializes to the store in memory (none: the store is
\* empty), so a restart loads an equal store.
C6_SnapshotIsStore ==
    /\ (life = "up" /\ last.op \in {"add_event", "remove_expired_events"}) => SnapshotMatchesStore
    /\ (life = "up" \/ last.op = "kill") =>
          IF snapshot.exists THEN SnapshotMatchesStore ELSE event_schedules = <<>>

C6_Witness ==
    /\ life = "up"
    /\ last.op = "restart"
    /\ Len(event_schedules) >= 2
    /\ SnapshotMatchesStore

\* C7: the snapshot file never holds a truncated or partial store: whenever it
\* exists it deserializes.
C7_SnapshotNeverPartial == snapshot.exists => Unpickle(snapshot.data).ok

\* C8: the startup of the scheduler never fails because of the snapshot.
C8_StartupNeverFails == life # "startup_failed"

\* C9: the EventStore never holds two entries with the same name.
C9_NoDuplicateNames ==
    \A i, j \in 1..Len(event_schedules) : event_schedules[i].name = event_schedules[j].name => i = j

C9_Witness ==
    /\ life = "up"
    /\ last.op = "add_event"
    /\ last.replacement
    /\ Len(event_schedules) >= 2
    /\ \E i \in 1..Len(event_schedules) : event_schedules[i] = last.src[1]

\* C10: while the scheduler runs, the EventStore entries are in non-increasing
\* priority order.
C10_SortedByPriority ==
    life = "up" =>
        \A i, j \in 1..Len(event_schedules) :
            i < j => /\ event_schedules[i].priority # None
                     /\ event_schedules[j].priority # None
                     /\ event_schedules[i].priority[1] >= event_schedules[j].priority[1]

C10_Witness ==
    /\ life = "up"
    /\ last.op = "add_event"
    /\ Len(event_schedules) >= 2
    /\ event_schedules[1].priority = Some(1)
    /\ event_schedules[Len(event_schedules)].priority = Some(0)

\* what the generate_schedules call that has just returned could see of a
\* target set: the fields of it that were up, when it was night
SeenBy(call, tg) ==
    LET Up(f) == f \in call.sky
    IN  IF call.twilight /\ tg.kind = "tuple" THEN SelectSeq(tg.ids, Up) ELSE <<>>

Range(seq) == {seq[i] : i \in 1..Len(seq)}

Dispatched == UNION {Range(current_schedules[k]) : k \in 1..Len(current_schedules)}

GenerateReturned == life = "up" /\ last.op = "generate_schedules"

VisibleEvents == {i \in 1..Len(event_schedules) : SeenBy(last, event_schedules[i].targets) # <<>>}

\* C14: when generate_schedules returns, its targets are the visible targets of
\* the first event of the EventStore that has a visible target; they are those
\* of the host schedule only when no event has one; and it returns false, with
\* current_schedules empty, exactly when neither an event nor the host schedule
\* has a visible target.
C14_FirstVisibleEvent ==
    GenerateReturned =>
        /\ VisibleEvents # {} =>
              /\ last.result
              /\ last.src = Some(event_schedules[MinOf(VisibleEvents)])
              /\ Dispatched = Range(SeenBy(last, event_schedules[MinOf(VisibleEvents)].targets))
        /\ (VisibleEvents = {} /\ SeenBy(last, host_schedule.targets) # <<>>) =>
              /\ last.result
              /\ last.src = Some(host_schedule)
              /\ Dispatched = Range(SeenBy(last, host_schedule.targets))
        /\ (VisibleEvents = {} /\ SeenBy(last, host_schedule.targets) = <<>>) =>
              /\ ~last.result
              /\ current_schedules = <<>>
        /\ ~last.result => (VisibleEvents = {} /\ SeenBy(last, host_schedule.targets) = <<>>)

\* the second event of the store was visible too, and the first was taken
C14_Witness ==
    /\ GenerateReturned
    /\ Cardinality(VisibleEvents) >= 2
    /\ 1 \in VisibleEvents
    /\ last.src = Some(event_schedules[1])
    /\ SeenBy(last, event_schedules[1].targets) # SeenBy(last, event_schedules[2].targets)

ClustersReturned == last.op = "separate_targets_into_clusters" /\ ~last.raised

\* C20: the n clusters separate_targets_into_clusters returns have sizes that
\* differ by at most one, for every number of targets and every n.
C20_ClusterSizesDifferByOne ==
    ClustersReturned =>
        \A k, l \in 1..Len(current_schedules) :
            Len(current_schedules[k]) - Len(current_schedules[l]) <= 1

-----------------------------------------------------------------------------
(* The turn of one telescope, read from `fetched` and `requests`.            *)

\* the commands requested from the telescope in its turn
Commands == {requests[i].cmd : i \in 1..Len(requests)}

\* get_telescope_state returned a state in this turn
StateFetched == fetched # None /\ GetTelescopeState(fetched[1]).state # None

\* the fetched state reports the enclosure as e
EnclosureReported(e) == StateFetched /\ fetched[1].body.enclosure = e

QueueBusy == StateFetched /\ fetched[1].body.queue_size > 0

\* C16: the turn of a telescope whose fetched state reports queue_size > 0
\* sends it no flats, focus, point or exposure command and leaves
\* current_schedules as it was.
C16_BusyTelescopeLeftAlone ==
    [][pc = "poll" /\ QueueBusy'
          => /\ Commands' \cap {"flats", "focus", "point", "exposure"} = {}
             /\ current_schedules' = current_schedules]_vars

\* a busy telescope with the enclosure opened and the controller stopped, at a
\* time when a target set is waiting to be dispatched: it is reset and
\* started, and the set waits on
C16_Witness ==
    /\ QueueBusy
    /\ EnclosureReported("opened")
    /\ Commands = {"reset", "start"}
    /\ current_schedules # <<>>

\* get_telescope_state returned False in this turn
FetchFailed == fetched # None /\ GetTelescopeState(fetched[1]).state = None

ClientCommands ==
    {"start", "reset", "stop", "enclosure_open", "flats", "focus", "point", "exposure"}

\* the requests of the turn that ended with a transport error or a 4xx/5xx status
FailedRequests == {i \in 1..Len(requests) : requests[i].outcome \in FailedOutcomes}

\* the turn comes to line 211 and generate_schedules can raise there
GenerateCanRaise ==
    \E sky \in LoopSkies :
      \E lab \in HostLabellings(TRUE, sky) :
        /\ Len(current_schedules) = 0
              \/ ~IsStillValid(current_schedules[Len(current_schedules)], TRUE, sky)
        /\ GenerateSchedules(event_schedules, snapshot, current_schedules, now, TRUE, sky, lab).raised

\* the fetched state takes the turn to line 211
DispatchTurn ==
    /\ EnclosureReported("opened")
    /\ fetched[1].body.queue_size = 0
    /\ ~ShouldTelescopeFocus(fetched[1].body, PollTime)

-----------------------------------------------------------------------------
(* Alerts at the operator *)

\* the schedules handler h can publish
Publications(h) == HandlerSchedules(h, now)

\* event is an entry of the EventStore
Stored(event) == \E i \in 1..Len(event_schedules) : event_schedules[i] = event

\* the list without its last element: current_schedules after a pop()
Popped(list) == SubSeq(list, 1, Len(list) - 1)

\* current_schedules after one turn of the for loop that ran generate_schedules
\* on the EventStore as it is
FreshlyGenerated(cur) ==
    \E sky \in LoopSkies :
      \E lab \in HostLabellings(TRUE, sky) :
        LET g == GenerateSchedules(event_schedules, snapshot, current_schedules, now, TRUE, sky, lab)
        IN  ~g.raised /\ (cur = g.cur \/ (g.cur # <<>> /\ cur = Popped(g.cur)))

PublishedDuringWait(h) == Operator("wait") /\ notification /\ hpc[h] = "interrupt"

\* C12: an alert published while the operator is in its timed wait ends the
\* wait with no need for the delay to run out, and handle_notification is
\* entered before any telescope is polled again.
C12_AlertInWaitIsHandled ==
    /\ \A h \in Handlers : PublishedDuringWait(h) ~> (pc = "reset_all_controllers")
    /\ [][notification /\ pc \in {"wait", "check"}
            => pc' \in {"wait", "check", "reset_all_controllers"}]_vars

\* C13: a handler sets the notification, and then interrupts the operator,
\* only with the buffer holding all four fields of the schedule it publishes;
\* the notification is never raised over a buffer whose write is not complete.
C13_NotifiedAfterBufferWritten ==
    [][/\ ~notification /\ notification'
          => \E h \in Handlers :
                /\ hpc[h] = "set_event" /\ hpc'[h] = "interrupt"
                /\ schedule_buffer \in Publications(h)
       /\ \A h \in Handlers :
             hpc[h] = "interrupt" /\ hpc'[h] = "listen" => schedule_buffer \in Publications(h)]_vars

\* a handler has written name, targets, priority and expiration, has set the
\* notification and is about to interrupt the operator
C13_Witness ==
    /\ notification
    /\ \E h \in Handlers : hpc[h] = "interrupt" /\ schedule_buffer \in Publications(h)
    /\ new_schedule = NoneSchedule

-----------------------------------------------------------------------------
(* generate_schedules and the handlers' filters *)

\* C21: right after generate_schedules has returned True, the twilight of the
\* configured kind held at the computation and every target of every list of
\* current_schedules was at or above the minimum altitude then; no target the
\* filter rejected is in current_schedules.
C21_DispatchedWereVisible ==
    (GenerateReturned /\ last.result) =>
        /\ last.twilight
        /\ Dispatched # {}
        /\ Dispatched \subseteq last.sky
        /\ Dispatched \subseteq Range(last.src[1].targets.ids)

\* a run whose source had a target below the minimum altitude and one above
C21_Witness ==
    /\ GenerateReturned /\ last.result
    /\ Range(last.src[1].targets.ids) \ last.sky # {}
    /\ Dispatched # {}

\* the entries of the EventStore that a Retraction published
RetractionEntries == {i \in 1..Len(event_schedules) : event_schedules[i].targets = ListTargets}

\* C22: when add_event has handled the Retraction of a name that was in the
\* EventStore, the remove_expired_events that follows the replacement leaves no
\* entry of that name, and no generate_schedules fails over an entry a
\* Retraction left behind.
C22_RetractionLeavesNoEntry ==
    /\ (life = "up" /\ last.op = "add_event" /\ last.replacement /\ last.src[1].targets = ListTargets)
          => \A i \in 1..Len(event_schedules) : event_schedules[i].name # last.src[1].name
    /\ (life = "raised" /\ last.op = "generate_schedules") => RetractionEntries = {}

\* C23: a Fermi notice whose ball query returns more than 100 fields is dropped
\* without any effect: the step of handle_alert that consumes it leaves the
\* buffer, the notification, the operator (its position, its life), the
\* EventStore, its snapshot and CurrentDispatch as they were.
C23_UnlocalizedGrbChangesNothing ==
    [][(last' # last /\ last'.op = "handle_alert" /\ last'.h = "fermi" /\ last'.notice.fields > 100)
          => UNCHANGED <<schedule_buffer, notification, pc, life, hpc, hpub,
                         event_schedules, snapshot, current_schedules>>]_vars

C23_Witness ==
    /\ last.op = "handle_alert" /\ last.h = "fermi"
    /\ last.notice.located /\ last.notice.fields > 100
    /\ ~last.published

\* the value of a Param of the notice exceeds the cutoff
ValueExceeds(element, cutoff) == element # None /\ element[1].value > cutoff

\* C24: a non-retraction LVC alert whose Terrestrial parameter exceeds 0.9 or
\* whose FAR parameter exceeds 1e-8 is never published: the step of
\* handle_alert that consumes it leaves the buffer and the notification
\* unchanged and the handler goes back to listening.
C24_TerrestrialOrUnlikelyIsDropped ==
    [][(/\ last' # last
        /\ last'.op = "handle_alert" /\ last'.h = "lvc"
        /\ last'.notice.type # "Retraction"
        /\ (ValueExceeds(last'.notice.terrestrial, 900) \/ ValueExceeds(last'.notice.far, 10)))
          => UNCHANGED <<schedule_buffer, notification, hpc>>]_vars

\* C25: stop_listening is never invoked on a handler while the listener thread
\* of that handler holds thread_lock, that is while it is constructing and
\* subscribing its consumer.
C25_NeverStoppedDuringConstruction ==
    ~(pc = "stop_listening" /\ hpc[HandlerAt(tel)] = "construct")

\* the dispatch sequence of telescope `tel` is running on the worker pool
DispatchInProgress == pc = "result" /\ fetched = None

\* C26: the dispatch sequences run in parallel on the worker pool, so a slow
\* controller does not delay the others: while the dispatch of a telescope
\* that is not the last is in progress, the operator gets to poll the next one.
C26_SlowControllerDoesNotDelayOthers ==
    (DispatchInProgress /\ tel < NTelescopes) ~> (life # "up" \/ (pc = "poll" /\ tel > 1))

\* the entries a snapshot file holds, none when it cannot be loaded
SnapshotEntries ==
    IF snapshot.exists /\ Unpickle(snapshot.data).ok THEN Unpickle(snapshot.data).value ELSE <<>>

NullEntry(list) == \E i \in 1..Len(list) : list[i].name = None /\ list[i].priority = None

\* C27: every entry of the EventStore was published by a handler: whatever
\* sets the notification, a termination signal included, no entry with the
\* null name and priority of the unwritten buffer is ever in the store or in
\* the snapshot.
C27_NoNullEntryInStore == ~NullEntry(event_schedules) /\ ~NullEntry(SnapshotEntries)

\* handler h has set the notification while the operator is in the off-hours
\* wait of line 163, and is about to interrupt it
PublishedOffHours(h) == Operator("wait_off") /\ notification /\ hpc[h] = "interrupt"

\* C28: an alert published while it is not civil twilight is still handled:
\* once the off-hours wait has been woken by the notification,
\* handle_notification eventually runs; the cycle does not restart for ever
\* with the notification set.
C28_OffHoursAlertIsHandled ==
    \A h \in Handlers : PublishedOffHours(h) ~> (pc = "reset_all_controllers")

\* the fetched state of the turn that the step ends
FocusStale == ShouldTelescopeFocus(fetched[1].body, PollTime)

FlatsDue == ShouldTakeFlats(fetched[1].body, PollTime)

\* C29: in its turn a telescope is sent at most one of flats, focus and a
\* science dispatch. Flats are sent only by a turn that finds astronomical
\* twilight not holding, and only when they are due, and such a turn sends
\* neither focus nor point/exposure; focus is sent only in astronomical
\* twilight with the focus stale, and then no point/exposure; point and
\* exposure are sent only in astronomical twilight with the focus not stale.
C29_OneOfFlatsFocusDispatch ==
    [][(pc = "poll" /\ fetched' # None) =>
          /\ Cardinality({k \in {"flats", "focus", "science"} :
                             \/ k \in Commands'
                             \/ k = "science" /\ Commands' \cap {"point", "exposure"} # {}}) <= 1
          /\ TurnNotAstronomical => Commands' \subseteq {"reset", "start", "flats"}
          /\ "flats" \in Commands' => TurnNotAstronomical /\ FlatsDue'
          /\ "focus" \in Commands' => TurnFocus /\ FocusStale'
          /\ Commands' \cap {"point", "exposure"} # {} => TurnDispatch /\ ~FocusStale']_vars

\* a telescope outside astronomical twilight whose flats are due and whose
\* focus is stale: it was sent the flats and no focus
C29_Witness ==
    /\ StateFetched
    /\ EnclosureReported("opened")
    /\ FlatsDue /\ FocusStale
    /\ "flats" \in Commands
    /\ "focus" \notin Commands

\* a point or exposure request of the turn ended with a transport error or a
\* 4xx/5xx status: send_schedule returned False
SendFailed == \E i \in FailedRequests : requests[i].cmd \in {"point", "exposure"}

\* C30: when send_schedule fails for the popped set, the set is pushed back:
\* after the turn current_schedules is what it was before the pop (the list
\* as it stood, or as generate_schedules of this turn made it), same sets in
\* the same order, and the set that was being sent is again its last.
C30_FailedSendPushesBack ==
    [][(pc = "poll" /\ fetched' # None /\ SendFailed') =>
          /\ current_schedules' # <<>>
          /\ \E sky \in LoopSkies : \E lab \in HostLabellings(TRUE, sky) :
                LET stale == Len(current_schedules) = 0
                             \/ ~IsStillValid(current_schedules[Len(current_schedules)], TRUE, sky)
                    g == GenerateSchedules(event_schedules, snapshot, current_schedules, now, TRUE, sky, lab)
                IN  current_schedules' = IF stale THEN g.cur ELSE current_schedules
          /\ \A i \in 1..Len(requests') :
                requests'[i].cmd \in {"point", "exposure"}
                   => requests'[i].target[1] \in Range(current_schedules'[Len(current_schedules')])]_vars

\* the second target of a set could not be pointed at: the first was sent, and
\* the whole set is back in current_schedules
C30_Witness ==
    /\ pc = "continue"
    /\ SendFailed
    /\ Cardinality({i \in 1..Len(requests) : requests[i].cmd = "exposure"}) >= 1
    /\ current_schedules # <<>>

\* C31: between two runs of generate_schedules no target is sent by an
\* exposure command to two different telescopes, whatever sends failed.
C31_NoTargetExposedTwice ==
    \A p \in Accepted : \A q \in Accepted : p[2] = q[2] => p[1] = q[1]

\* the request `cmd` was made in this turn and got a response
Answered(cmd) == \E i \in 1..Len(requests) : requests[i].cmd = cmd /\ requests[i].outcome = "ok"

\* C32: flats, focus and point/exposure commands are sent to a telescope in a
\* turn only if its fetched state reported running = true or the reset and
\* the start of that turn both succeeded; start is requested only after a
\* reset that succeeded.
C32_CommandsOnlyToRunningController ==
    /\ "start" \in Commands => Answered("reset")
    /\ (StateFetched /\ Commands \cap {"flats", "focus", "point", "exposure"} # {})
          => fetched[1].body.running \/ (Answered("reset") /\ Answered("start"))

\* C33: in every reachable state current_schedules is ordered by ascending
\* length, after generate_schedules, after a pop and after the push-back of a
\* failed send: the pop of line 218 takes a longest set.
C33_DispatchAscendingByLength ==
    \A i \in 1..Len(current_schedules) : \A j \in i..Len(current_schedules) :
        Len(current_schedules[i]) <= Len(current_schedules[j])

\* a set was pushed back after a failed send, behind a shorter one
C33_Witness ==
    /\ pc = "continue"
    /\ SendFailed
    /\ Len(current_schedules) >= 2
    /\ Len(current_schedules[1]) < Len(current_schedules[Len(current_schedules)])

Names(list) == {list[i].name : i \in 1..Len(list)}

\* the step is add_event, remove_expired_events or generate_schedules
StoreOperation == life = "up" /\ life' \in {"up", "raised"}

\* C34: entries of equal priority stay in the order of their insertion: no
\* operation on the store swaps two entries that have the same priority after
\* it, and an entry under a new name comes behind every entry of its priority
\* that is kept.
C34_EqualPrioritiesKeepOrder ==
    [][StoreOperation =>
          \A a \in Names(event_schedules') : \A b \in Names(event_schedules') \ {a} :
             LET pa == NameIndex(event_schedules', a)
                 pb == NameIndex(event_schedules', b)
             IN  (/\ event_schedules'[pa].priority = event_schedules'[pb].priority
                  /\ b \in Names(event_schedules)
                  /\ \/ a \notin Names(event_schedules)
                     \/ NameIndex(event_schedules, b) < NameIndex(event_schedules, a))
                    => pb < pa]_vars

\* add_event has replaced the first of the entries, and the one behind it has
\* the same priority
C34_Witness ==
    /\ life = "up"
    /\ last.op = "add_event" /\ last.replacement
    /\ Len(event_schedules) >= 2
    /\ event_schedules[1].name = last.src[1].name
    /\ event_schedules[1].priority = event_schedules[2].priority

\* the point and exposure requests of the turn, in the order they were made
Sends == SelectSeq(requests, LAMBDA r : r.cmd \in {"point", "exposure"})

\* C35: within a cycle the telescopes are visited in configuration order, and
\* send_schedule issues its commands in target-index order: point then
\* exposure for the first target of the popped set, then for the second, and
\* so on; a command that fails is the last request of the turn.
C35_CommandsInTargetOrder ==
    [][/\ tel' # tel => (pc = "continue" /\ tel' = tel + 1) \/ (pc = "loop" /\ tel' = 1)
       /\ (pc = "poll" /\ fetched' # None /\ Sends' # <<>>) =>
             \E sky \in LoopSkies : \E lab \in HostLabellings(TRUE, sky) :
                LET stale == Len(current_schedules) = 0
                             \/ ~IsStillValid(current_schedules[Len(current_schedules)], TRUE, sky)
                    g == GenerateSchedules(event_schedules, snapshot, current_schedules, now, TRUE, sky, lab)
                    cur == IF stale THEN g.cur ELSE current_schedules
                    set == cur[Len(cur)]
                    n == Len(Sends')
                IN  /\ cur # <<>>
                    /\ n <= 2 * Len(set)
                    /\ SubSeq(requests', Len(requests') - n + 1, Len(requests')) = Sends'
                    /\ \A k \in 1..n :
                          /\ Sends'[k].cmd = IF k % 2 = 1 THEN "point" ELSE "exposure"
                          /\ Sends'[k].target = Some(set[(k + 1) \div 2])
                          /\ k < n => Sends'[k].outcome = "ok"
                    /\ Sends'[n].outcome = "ok" => n = 2 * Len(set)]_vars

\* the second telescope of the cycle is sent a set of two targets, and the
\* exposure of the second target fails
C35_Witness ==
    /\ pc = "continue"
    /\ tel = 2
    /\ Len(Sends) = 4
    /\ Sends[4].outcome # "ok"
    /\ Sends[1].target # Sends[3].target

\* a notice without an element its handler looks for; a Retraction carries no
\* skymap and handle_alert does not look for skymap_fits in it
Malformed(h, n) ==
    IF h = "fermi" THEN ~n.located \/ n.lacks = "TrigID"
    ELSE n.lacks \in {"AlertType", "GraceID"} \/ (n.lacks = "skymap_fits" /\ n.type # "Retraction")

\* C36: a malformed alert changes nothing: the step of handle_alert that
\* consumes a GRB notice without C1, C2, Error2Radius or TrigID, or an LVC
\* notice without AlertType, skymap_fits or GraceID, leaves every field of the
\* buffer, the notification, the operator, the EventStore, its snapshot and
\* CurrentDispatch as they were.
C36_MalformedAlertChangesNothing ==
    [][(last' # last /\ last'.op = "handle_alert" /\ Malformed(last'.h, last'.notice))
          => UNCHANGED <<schedule_buffer, notification, pc, life, hpub,
                         event_schedules, snapshot, current_schedules>>]_vars

\* a located GRB notice without TrigID was consumed after an alert had been
\* published: the buffer still holds that alert
C36_Witness ==
    /\ last.op = "handle_alert" /\ last.h = "fermi"
    /\ last.notice.lacks = "TrigID" /\ last.notice.located
    /\ schedule_buffer # NoneSchedule

\* C37: should_telescope_focus returns true exactly when last_focused is later
\* than the clock or more than 21600 s before it; should_take_flats returns true
\* exactly when last_flat is not later than the clock and more than 7200 s
\* before it
C37_FocusAndFlatsByInterval ==
    /\ last.op = "should_telescope_focus" =>
          LET last_focused == fetched[1].body.last_focused
          IN  last.result <=> (\/ last_focused > last.current_time
                               \/ last.current_time - last_focused > 21600)
    /\ (last.op = "should_take_flats" /\ fetched[1].body.last_flat # None) =>
          LET last_flat == fetched[1].body.last_flat[1]
          IN  last.result <=> (/\ ~(last_flat > last.current_time)
                               /\ last.current_time - last_flat > 7200)

\* a timestamp of the future: focus is requested, flats are not
C37_Witness ==
    \/ /\ last.op = "should_telescope_focus"
       /\ fetched[1].body.last_focused > last.current_time
       /\ last.result
    \/ /\ last.op = "should_take_flats"
       /\ fetched[1].body.last_flat # None
       /\ fetched[1].body.last_flat[1] > last.current_time
       /\ ~last.result

\* the loop has just sent an alert
AlertSent == last.op = "alert_slack" /\ ~last.raised

\* the poll made last observed an error condition
PollFoundError == requests # <<>> /\ requests[Len(requests)].error

\* C38: an alert is sent only when every poll since error_time was set observed
\* an error condition and more than 180 s have passed since then; a poll that
\* finds the enclosure closed or closing, or the conditions good, clears the
\* timer, and so does the alert
C38_AlertOnlyForPersistingError ==
    /\ AlertSent =>
          /\ now - last.error_time[1] > 180
          /\ \E i \in DOMAIN requests : requests[i].at = last.error_time[1]
          /\ \A i \in DOMAIN requests :
                requests[i].at >= last.error_time[1] => requests[i].error
          /\ fetched.error_time = None
    /\ (last.op = "poll" /\ ~last.raised /\ ~PollFoundError) => fetched.error_time = None

\* an alert sent 181 s after the timer was set, after four polls with an error
C38_Witness ==
    /\ AlertSent
    /\ now - last.error_time[1] = 181
    /\ Len(requests) = 4

\* C39: the loop never stops because of a response, and if from some poll on
\* every poll observes an error condition, alerts are sent again and again
C39_PersistingErrorAlerted ==
    /\ [](life = "up")
    /\ (<>[](last.op = "poll" => PollFoundError)) => []<>AlertSent

\* _trim_old_files has just returned, called on its own or by save_status_to_json
TrimReturned == last.op \in {"_trim_old_files", "save_status_to_json"} /\ ~last.raised

====
